---------------------------- MODULE Spec2Model ----------------------------
(***************************************************************************)
(* Verification model of the townhall-rwa rezoning scraper:                *)
(*   - utils/pin_extractor.py      identifier (PIN) extraction             *)
(*   - agents/charlottenc_legistar/scraper.py   attachment fetcher,        *)
(*                                              scrape_all                 *)
(*   - agents/charlottenc_legistar/gis_fetcher.py  geometry resolution     *)
(*   - main.py                     TownhallOrchestrator.run, run_county,   *)
(*                                 run_all_counties, main                  *)
(*   - utils/pdf_parser.py         parse_pdf and its two backends          *)
(*   - agents/charlottenc_legistar/storage.py   the JSON artifacts         *)
(*   - backend/alerts_cron.py      the alert cron job                      *)
(* The specifications of the module:                                       *)
(*   SpecExtract   PINExtractor over a directory / batch of documents      *)
(*   SpecDownload  LegistarScraper.download_petition_attachments           *)
(*   Spec          one orchestrated run of one county (main with a county) *)
(*   SpecAll       run_all_counties                                        *)
(*   SpecGeometry  GISFetcher.fetch_parcels_for_all_meetings               *)
(*   SpecCalendar  LegistarScraper.fetch_calendar                          *)
(*   SpecParse     parse_pdf                                               *)
(*   SpecStorage   _save_data, load_petitions and main --stats             *)
(*   SpecAgent     call_alert_checker_agent                                *)
(*   SpecNotify    send_notifications and the exit of the cron job         *)
(***************************************************************************)
EXTENDS Integers, Sequences, FiniteSets, TLC

(***************************************************************************)
(* Bounds of the model                                                     *)
(***************************************************************************)
MaxDocs == 3
MaxAttachments == 3
MaxMeetings == 2
MaxCounties == 3
MaxGeoMeetings == 2
MaxRows == 3
MaxStoredMeetings == 2
MaxNotifications == 3

(***************************************************************************)
(* Option values: None is Python's None, Some(x) a present value.          *)
(***************************************************************************)
None == << >>
Some(x) == << x >>

(***************************************************************************)
(* Strings are sequences of one-character strings, so that str.replace and *)
(* the ordering of sorted() are computed and not assumed.                  *)
(***************************************************************************)
Digits == {"0", "1", "2", "3", "4", "5", "6", "7", "8", "9"}

\* Unicode code point order of the characters that occur: '-' < '0' < .. < '9'
CharOrder == << "-", "0", "1", "2", "3", "4", "5", "6", "7", "8", "9" >>

CodePoint(c) == CHOOSE i \in 1..Len(CharOrder) : CharOrder[i] = c

\* Python's str < str
RECURSIVE StrLess(_, _)
StrLess(a, b) ==
    IF b = << >> THEN FALSE
    ELSE IF a = << >> THEN TRUE
    ELSE IF Head(a) = Head(b) THEN StrLess(Tail(a), Tail(b))
    ELSE CodePoint(Head(a)) < CodePoint(Head(b))

\* sorted(list(s)) for a set s of strings
RECURSIVE SortedList(_)
SortedList(s) ==
    IF s = {} THEN << >>
    ELSE LET m == CHOOSE x \in s : \A y \in s : y = x \/ StrLess(x, y)
         IN  << m >> \o SortedList(s \ {m})

\* a faulty variant of StripDashes: the hyphens stay
StripDashesKeepsHyphens(m) == m

\* m.replace('-', '')
StripDashes(m) == SelectSeq(m, LAMBDA c : c # "-")

SeqToSet(q) == { q[i] : i \in 1..Len(q) }

(***************************************************************************)
(* Document text.  A text is a sequence of mentions: a label followed by   *)
(* a raw token.  The five DEFAULT_PATTERNS are regexes of the shape        *)
(* <label> <separator> (<captured token>): the label part is modelled by   *)
(* the set of labels it accepts, the captured group by the prefix of the   *)
(* raw token it consumes.                                                  *)
(***************************************************************************)
Labels == {"TAX PARCEL", "TAX PARCEL NO.", "PID", "PARCEL ID", "TCA", "PIN"}

\* (\d{8}): the first eight characters, when they are all digits
Capture8(raw) ==
    IF Len(raw) >= 8 /\ \A i \in 1..8 : raw[i] \in Digits
    THEN Some(SubSeq(raw, 1, 8)) ELSE None

\* (\d{3}-\d{3}-\d{2})
CaptureDashed(raw) ==
    IF /\ Len(raw) >= 10
       /\ \A i \in {1, 2, 3, 5, 6, 7, 9, 10} : raw[i] \in Digits
       /\ raw[4] = "-" /\ raw[8] = "-"
    THEN Some(SubSeq(raw, 1, 10)) ELSE None

\* PINExtractor.DEFAULT_PATTERNS, in list order
DEFAULT_PATTERNS == <<
    [labels |-> {"TAX PARCEL", "TAX PARCEL NO."}, dashed |-> FALSE],
    [labels |-> {"TAX PARCEL NO."},               dashed |-> TRUE],
    [labels |-> {"PID"},                          dashed |-> FALSE],
    [labels |-> {"PARCEL ID"},                    dashed |-> FALSE],
    [labels |-> {"TCA"},                          dashed |-> FALSE] >>

\* re.findall(pattern, text, re.IGNORECASE): captured groups, in text order
RECURSIVE FindAll(_, _)
FindAll(pattern, text) ==
    IF text = << >> THEN << >>
    ELSE LET m   == Head(text)
             cap == IF m.label \notin pattern.labels THEN None
                    ELSE IF pattern.dashed THEN CaptureDashed(m.raw)
                    ELSE Capture8(m.raw)
         IN  cap \o FindAll(pattern, Tail(text))


(***************************************************************************)
(* Results of calls that may raise: Return(v) or Raise.                    *)
(***************************************************************************)
Return(v) == [raised |-> FALSE, value |-> v]
Raise == [raised |-> TRUE, value |-> << >>]

(***************************************************************************)
(* A document on disk: whether the path exists, whether parse_pdf raises   *)
(* on it (no backend, unreadable file), and the text parse_pdf extracts.   *)
(***************************************************************************)
parse_pdf(doc) ==
    IF ~doc.exists THEN Raise                  \* FileNotFoundError
    ELSE IF doc.parse = "raises" THEN Raise
    ELSE Return(doc.text)

\* normalized = [m.replace('-', '') for m in matches]
NormalizeMatches(matches) == [i \in DOMAIN matches |-> StripDashes(matches[i])]

\* the set built by the pattern loop of extract_from_pdf
RECURSIVE PinsOfText(_, _)
PinsOfText(patterns, text) ==
    IF patterns = << >> THEN {}
    ELSE SeqToSet(NormalizeMatches(FindAll(Head(patterns), text)))
         \cup PinsOfText(Tail(patterns), text)

\* a faulty variant of extract_from_pdf: no try/except around the parse
extract_from_pdf_uncaught(doc) ==
    IF ~doc.exists THEN Return(<< >>)
    ELSE LET r == parse_pdf(doc)
         IN  IF r.raised THEN Raise
             ELSE IF r.value = << >> THEN Return(<< >>)
             ELSE Return(SortedList(PinsOfText(DEFAULT_PATTERNS, r.value)))

\* PINExtractor.extract_from_pdf
extract_from_pdf(doc) ==
    IF ~doc.exists THEN Return(<< >>)
    ELSE LET r == parse_pdf(doc)
         IN  IF r.raised THEN Return(<< >>)     \* except Exception: return []
             ELSE IF r.value = << >> THEN Return(<< >>)
             ELSE Return(SortedList(PinsOfText(DEFAULT_PATTERNS, r.value)))

\* the loop shared by extract_from_directory and extract_batch: the set
\* all_pins after the documents, or Raise when a call raised
RECURSIVE ExtractLoop(_, _)
ExtractLoop(docs, all_pins) ==
    IF docs = << >> THEN Return(all_pins)
    ELSE LET r == extract_from_pdf(Head(docs))
         IN  IF r.raised THEN Raise
             ELSE ExtractLoop(Tail(docs), all_pins \cup SeqToSet(r.value))

\* PINExtractor.extract_from_directory, on the list pdf_dir.glob("*.pdf")
extract_from_directory(pdf_files) ==
    IF pdf_files = << >> THEN Return(<< >>)
    ELSE LET r == ExtractLoop(pdf_files, {})
         IN  IF r.raised THEN Return(<< >>)     \* except Exception: return []
             ELSE Return(SortedList(r.value))

\* PINExtractor.extract_batch
extract_batch(pdf_paths) ==
    LET r == ExtractLoop(pdf_paths, {})
    IN  IF r.raised THEN Raise ELSE Return(SortedList(r.value))

(***************************************************************************)
(* Inputs of the extractor: tokens, mentions, documents.                   *)
(***************************************************************************)
Pin12305310 == << "1", "2", "3", "0", "5", "3", "1", "0" >>
Pin123_053_10 == << "1", "2", "3", "-", "0", "5", "3", "-", "1", "0" >>
Pin02217101 == << "0", "2", "2", "1", "7", "1", "0", "1" >>
Tok223101979 == << "2", "2", "3", "1", "0", "1", "9", "7", "9" >>
Tok1230531 == << "1", "2", "3", "0", "5", "3", "1" >>

Mention(label, raw) == [label |-> label, raw |-> raw]

OkDoc(text) == [exists |-> TRUE, parse |-> "ok", text |-> text]
CorruptDoc == [exists |-> TRUE, parse |-> "raises", text |-> << >>]
MissingDoc == [exists |-> FALSE, parse |-> "ok", text |-> << >>]

\* the same parcel in dashed and in undashed form, under two patterns
DocDashedAndPlain ==
    OkDoc(<< Mention("TAX PARCEL NO.", Pin123_053_10), Mention("PID", Pin12305310) >>)
\* two parcels, the later-sorting one first in the text
DocTwoParcels ==
    OkDoc(<< Mention("TAX PARCEL", Pin12305310), Mention("PARCEL ID", Pin02217101) >>)
\* a nine-digit token, an unknown label, a dashed token after a label that
\* takes no dashes, a seven-digit token
DocOddTokens ==
    OkDoc(<< Mention("TCA", Tok223101979), Mention("PIN", Pin02217101),
             Mention("PID", Pin123_053_10), Mention("TAX PARCEL", Tok1230531) >>)
DocNoText == OkDoc(<< >>)

DocUniverse ==
    { DocDashedAndPlain, DocTwoParcels, DocOddTokens, DocNoText, CorruptDoc, MissingDoc }

RECURSIVE SeqsUpTo(_, _)
SeqsUpTo(S, n) ==
    IF n = 0 THEN { << >> }
    ELSE LET shorter == SeqsUpTo(S, n - 1)
         IN  shorter \cup { Append(q, x) : q \in shorter, x \in S }

(***************************************************************************)
(* Attachment fetcher (LegistarScraper.download_petition_attachments).     *)
(* Attachment names are strings (character sequences); a path is the       *)
(* petition directory plus the sanitised name.                             *)
(***************************************************************************)
WordChars ==
    Digits \cup {"_", "a", "l", "n", "p", "d", "f", "M", "P", "A", "D", "F"}

\* str.lower() on the characters that occur
LowerChar(c) ==
    CASE c = "M" -> "m" [] c = "P" -> "p" [] c = "A" -> "a"
      [] c = "D" -> "d" [] c = "F" -> "f" [] OTHER -> c

DotPdf == << ".", "p", "d", "f" >>

EndsWith(s, suffix) ==
    /\ Len(s) >= Len(suffix)
    /\ SubSeq(s, Len(s) - Len(suffix) + 1, Len(s)) = suffix

\* safe_name = re.sub(r'[^\w\-.]', '_', name); '.pdf' appended unless
\* safe_name.lower() ends with it
safe_name(name) ==
    LET subbed == [i \in DOMAIN name |->
                     IF name[i] \in WordChars \cup {"-", "."} THEN name[i] ELSE "_"]
        lowered == [i \in DOMAIN subbed |-> LowerChar(subbed[i])]
    IN  IF EndsWith(lowered, DotPdf) THEN subbed ELSE subbed \o DotPdf

\* file_path = petition_dir / safe_name
FilePath(petition_number, name) == [dir |-> petition_number, name |-> safe_name(name)]

\* open(file_path, 'wb') followed by a complete write
WriteFile(fs, path, doc) ==
    { f \in fs : ~(f.dir = path.dir /\ f.name = path.name) }
    \cup { [dir |-> path.dir, name |-> path.name, doc |-> doc] }

\* what a write that fails midway leaves on disk: a truncated PDF
TornDoc == [exists |-> TRUE, parse |-> "raises", text |-> << >>]

\* outcomes of one attachment's download: the GET and raise_for_status
\* succeed and the file is saved; the request fails; open() fails; the
\* write fails after the file was opened
DownloadOutcomes == {"ok", "http_error", "open_error", "write_error"}

\* the state of the loop of download_petition_attachments
DownloadState(fs) == [downloaded_files |-> << >>, fs |-> fs, trace |-> << >>]

\* a faulty variant of DownloadAttempt: the file of a failed attempt is
\* reported as downloaded
DownloadAttemptReportsFailures(st, petition_number, i, attachment, outcome) ==
    LET path == FilePath(petition_number, attachment.name)
        got  == Append(st.trace, [op |-> "get", i |-> i])
    IN  [downloaded_files |-> Append(st.downloaded_files, path),
         fs    |-> IF outcome = "ok" THEN WriteFile(st.fs, path, attachment.doc)
                   ELSE st.fs,
         trace |-> got]

\* one iteration of "for i, attachment in enumerate(attachments, 1)"
DownloadAttempt(st, petition_number, i, attachment, outcome) ==
    LET path == FilePath(petition_number, attachment.name)
        got  == Append(st.trace, [op |-> "get", i |-> i])
    IN  CASE outcome = "ok" ->
               [downloaded_files |-> Append(st.downloaded_files, path),
                fs    |-> WriteFile(st.fs, path, attachment.doc),
                trace |-> Append(got, [op |-> "sleep", i |-> i])]
          [] outcome = "write_error" ->          \* except Exception: continue
               [st EXCEPT !.fs = WriteFile(st.fs, path, TornDoc), !.trace = got]
          [] OTHER ->                            \* except Exception: continue
               [st EXCEPT !.trace = got]

\* the number of requests the trace holds for attachment i
RECURSIVE Requests(_, _)
Requests(trace, i) ==
    IF trace = << >> THEN 0
    ELSE (IF Head(trace).op = "get" /\ Head(trace).i = i THEN 1 ELSE 0)
         + Requests(Tail(trace), i)

\* a faulty variant of NextAttachment: a failed download is tried once more
NextAttachmentRetries(st, i, outcome) ==
    IF outcome # "ok" /\ Requests(st.trace, i) < 2 THEN i ELSE i + 1

\* the index the loop goes to after attachment i: "continue" in the except
\* branch and the end of the try body both go on to the next attachment
NextAttachment(st, i, outcome) == i + 1

\* the whole loop, from attachment i on, under the given outcomes
RECURSIVE DownloadLoop(_, _, _, _, _)
DownloadLoop(st, petition_number, attachments, outcomes, i) ==
    IF i > Len(attachments) THEN st
    ELSE LET after == DownloadAttempt(st, petition_number, i, attachments[i], outcomes[i])
         IN  DownloadLoop(after, petition_number, attachments, outcomes,
                          NextAttachment(after, i, outcomes[i]))

\* download_petition_attachments: page is Raise (the legislation page could
\* not be fetched) or Return(attachments found on it)
download_petition_attachments(petition_number, page, outcomes, fs) ==
    IF page.raised THEN DownloadState(fs)          \* outer except: return []
    ELSE IF page.value = << >> THEN DownloadState(fs)
    ELSE DownloadLoop(DownloadState(fs), petition_number, page.value, outcomes, 1)

(***************************************************************************)
(* Inputs of the attachment fetcher                                        *)
(***************************************************************************)
NamePlanSpace == << "P", "l", "a", "n", " ", "A" >>
NamePlanUnder == << "P", "l", "a", "n", "_", "A" >>
NameMap == << "M", "a", "p" >>
NameMapUpper == << "M", "a", "p", ".", "P", "D", "F" >>

\* links of an attachments table: link text, href, and the document served
AttStaff == [name |-> NamePlanSpace, url |-> "View.ashx?ID=1", doc |-> DocDashedAndPlain]
AttMap == [name |-> NameMap, url |-> "View.ashx?ID=2", doc |-> DocTwoParcels]
\* sanitises to the same file name as AttStaff
AttDup == [name |-> NamePlanUnder, url |-> "View.ashx?ID=3", doc |-> DocNoText]
AttUpper == [name |-> NameMapUpper, url |-> "View.ashx?ID=4", doc |-> CorruptDoc]

AttachmentUniverse == { AttStaff, AttMap, AttDup, AttUpper }

\* a file left in a petition directory by an earlier run
StaleFile(petition_number) ==
    [dir |-> petition_number, name |-> safe_name(NameMap), doc |-> DocTwoParcels]

(***************************************************************************)
(* The site scraped by one run (scraper.py scrape_all and its callees).    *)
(***************************************************************************)
MeetingTypes == {"Zoning Committee", "City Council Business Meeting"}

\* the keywords of zoning_keywords contained in meeting_type.lower()
KeywordsIn(meeting_type) ==
    CASE meeting_type = "Zoning Committee" -> {"zoning"}
      [] OTHER -> {}

zoning_keywords == {"zoning", "rezoning", "planning"}

\* a faulty variant of FilterZoning: every meeting of the calendar is kept
FilterZoningKeepsAll(cal) == cal

\* scrape_all, filter_zoning=True: the meetings of the calendar kept
RECURSIVE FilterZoning(_)
FilterZoning(cal) ==
    IF cal = << >> THEN << >>
    ELSE (IF KeywordsIn(Head(cal).meeting_type) \cap zoning_keywords # {}
          THEN << Head(cal) >> ELSE << >>) \o FilterZoning(Tail(cal))

\* the calendar page with the given meeting types, one row each
CalendarOf(types) == [i \in DOMAIN types |-> [id |-> i, meeting_type |-> types[i]]]

\* rows of an agenda table, as _parse_agenda_item sees them
RowA ==
    [kind |-> "petition", file_number |-> "15-25343",
     petition_number |-> Some("2025-103"), legislation_url |-> Some("LegislationDetail?ID=1")]
RowB ==
    [kind |-> "petition", file_number |-> "15-25344",
     petition_number |-> Some("2025-104"), legislation_url |-> Some("LegislationDetail?ID=2")]
\* a title with a keyword and no \d{4}-\d+ token
RowNoNumber ==
    [kind |-> "petition", file_number |-> "15-25345",
     petition_number |-> None, legislation_url |-> Some("LegislationDetail?ID=3")]
\* a row on which _parse_agenda_item raises
RowBad ==
    [kind |-> "raises", file_number |-> "", petition_number |-> None, legislation_url |-> None]

\* the agenda tables a meeting details page may hold
Agendas ==
    { << >>, << RowA >>, << RowB >>, << RowNoNumber, RowBad, RowA >> }

\* _parse_agenda_item: Some(petition), or None for a row that is no petition
\* or whose parsing raised (except Exception: return None)
parse_agenda_item(row) ==
    IF row.kind = "petition"
    THEN Some([file_number |-> row.file_number,
               petition_number |-> row.petition_number,
               legislation_url |-> row.legislation_url,
               pins |-> None])
    ELSE None

\* the loop of fetch_meeting_details over the rows of the agenda table
RECURSIVE ParseAgenda(_)
ParseAgenda(rows) ==
    IF rows = << >> THEN << >>
    ELSE parse_agenda_item(Head(rows)) \o ParseAgenda(Tail(rows))

\* the attachments table of a legislation detail page
LegislationPage(url) ==
    CASE url = "LegislationDetail?ID=1" -> << AttStaff >>
      [] url = "LegislationDetail?ID=2" -> << AttMap >>
      [] OTHER -> << >>

\* outcomes of a download drawn in a whole run
RunDownloadOutcomes == {"ok", "http_error"}

\* a set as a list, in some order (the order of glob is not specified)
RECURSIVE SetToSeq(_)
SetToSeq(S) ==
    IF S = {} THEN << >>
    ELSE LET x == CHOOSE y \in S : TRUE IN << x >> \o SetToSeq(S \ {x})

\* list(pdf_dir.glob("*.pdf")): the documents of the files of the directory
\* whose name ends in ".pdf"
GlobPdf(fs, dir) ==
    LET files == { f \in fs : f.dir = dir /\ EndsWith(f.name, DotPdf) }
    IN  [i \in 1..Cardinality(files) |-> SetToSeq(files)[i].doc]

\* the positions << meeting, petition >> in the order of the two loops of
\* _process_petitions
RECURSIVE PetitionPositions(_, _)
PetitionPositions(meetings, m) ==
    IF m > Len(meetings) THEN << >>
    ELSE [p \in 1..Len(meetings[m].petitions) |-> << m, p >>]
         \o PetitionPositions(meetings, m + 1)

\* a faulty variant of ProcessOne: the directory is read without looking at
\* downloaded_files
ProcessOneAlwaysExtracts(petition, page, outcomes, fs) ==
    LET number == petition.petition_number[1]
        st     == download_petition_attachments(number, page, outcomes, fs)
        pins   == extract_from_directory(GlobPdf(st.fs, number)).value
    IN  [petition |-> IF pins # << >> THEN [petition EXCEPT !.pins = Some(pins)]
                      ELSE petition,
         fs |-> st.fs,
         downloaded |-> st.downloaded_files # << >>]

\* the body of the loop of _process_petitions for one petition that has a
\* number and a URL: the petition with its pins, the files on disk, and
\* whether downloaded_files was non-empty
ProcessOne(petition, page, outcomes, fs) ==
    LET number == petition.petition_number[1]
        st     == download_petition_attachments(number, page, outcomes, fs)
        pins   == IF st.downloaded_files # << >>
                  THEN extract_from_directory(GlobPdf(st.fs, number)).value
                  ELSE << >>
    IN  [petition |-> IF pins # << >> THEN [petition EXCEPT !.pins = Some(pins)]
                      ELSE petition,
         fs |-> st.fs,
         downloaded |-> st.downloaded_files # << >>]

\* a lookup per petition with pins and per pin, in the order of the loops of
\* fetch_parcels_for_all_meetings and fetch_parcels_for_petitions
RECURSIVE PetitionLookups(_, _, _)
PetitionLookups(meeting, petitions, p) ==
    IF p > Len(petitions) THEN << >>
    ELSE (IF petitions[p].pins # None /\ Len(petitions[p].pins[1]) > 0
          THEN [k \in 1..Len(petitions[p].pins[1]) |->
                   [meeting |-> meeting.id, petition |-> p, pin |-> petitions[p].pins[1][k]]]
          ELSE << >>) \o PetitionLookups(meeting, petitions, p + 1)

RECURSIVE Lookups(_, _)
Lookups(meetings, m) ==
    IF m > Len(meetings) THEN << >>
    ELSE PetitionLookups(meetings[m], meetings[m].petitions, 1) \o Lookups(meetings, m + 1)

\* outcomes of get_parcel_by_pid and of the metadata merge that follows it:
\* None returned (no match, or a request error caught inside the client);
\* a feature; a feature whose "properties" is null, on which
\* parcel['properties'].update raises
LookupOutcomes == {"none", "feature", "null_properties"}

\* the four artifacts, in the order _save_data writes them
Artifacts == << "meetings", "petitions", "parcels", "stats" >>

\* a faulty variant of StepAfter: the artifacts are saved before geometry
StepAfterSavesFirst(step) ==
    CASE step = "start" -> "calendar"
      [] step = "calendar" -> "details"
      [] step = "details" -> "process_open"
      [] step = "process_open" -> "process"
      [] step = "process" -> "save"
      [] step = "save" -> "geometry_open"
      [] step = "geometry_open" -> "geometry"
      [] step = "geometry" -> "done"

\* the statement order of TownhallOrchestrator.run: the step that follows
\* each step when it ends without an exception
StepAfter(step) ==
    CASE step = "start" -> "calendar"
      [] step = "calendar" -> "details"
      [] step = "details" -> "process_open"
      [] step = "process_open" -> "process"
      [] step = "process" -> "geometry_open"
      [] step = "geometry_open" -> "geometry"
      [] step = "geometry" -> "save"
      [] step = "save" -> "done"

\* LegistarScraper.__aenter__ / MecklenburgGISClient.__aenter__: a new
\* httpx.AsyncClient for the owner of the "async with"
aenter(sessions, owner) == Append(sessions, [owner |-> owner, open |-> TRUE])

\* a faulty variant of aexit: the session is left open
aexit_leaves_open(sessions, owner) == sessions

\* __aexit__: session.aclose(), on the normal and on the exceptional exit
aexit(sessions, owner) ==
    [i \in DOMAIN sessions |->
        IF sessions[i].owner = owner THEN [sessions[i] EXCEPT !.open = FALSE]
        ELSE sessions[i]]

\* what a write cut short by the end of the process leaves of a file opened
\* with open(path, 'w'): the file of the last run, an empty or a partial file
InterruptedWrite == {"old", "torn"}

\* run: "if not meetings: logger.warning(...); return False"
NoMeetingsResult == FALSE

\* main: sys.exit(0 if success else 1)
ExitStatus(success) == IF success THEN 0 ELSE 1

(***************************************************************************)
(* run_county and run_all_counties (main.py).  What the run of one county  *)
(* does is summed up by its outcome: the constructor of the orchestrator   *)
(* raises (unknown county, data directory), or run returns False or True.  *)
(***************************************************************************)
RunOutcomes == {"constructor raises", "returns False", "returns True"}

\* a faulty variant of run_county: no try/except around the orchestrator
run_county_uncaught(outcome) ==
    IF outcome = "constructor raises" THEN Raise
    ELSE Return(outcome = "returns True")

\* run_county: the success flag of the run, False when anything raised
run_county(outcome) ==
    IF outcome = "constructor raises" THEN Return(FALSE)   \* except Exception
    ELSE Return(outcome = "returns True")

\* get_enabled_counties: the enabled counties, in the order of COUNTIES
RECURSIVE get_enabled_counties(_, _)
get_enabled_counties(enabledFlags, c) ==
    IF c > Len(enabledFlags) THEN << >>
    ELSE (IF enabledFlags[c] THEN << c >> ELSE << >>)
         \o get_enabled_counties(enabledFlags, c + 1)

\* the dict results as a list of entries in insertion order
ResultOf(results, c) ==
    LET hits == SelectSeq(results, LAMBDA e : e.county = c)
    IN  IF hits = << >> THEN None ELSE Some(hits[Len(hits)].success)

(***************************************************************************)
(* GIS geometry resolution (gis_client.py, gis_fetcher.py).  A dict is a   *)
(* function from its keys; the value None is the string "None".            *)
(***************************************************************************)
\* d.update(e)
Update(d, e) ==
    [k \in DOMAIN d \cup DOMAIN e |-> IF k \in DOMAIN e THEN e[k] ELSE d[k]]

\* what the query of get_parcel_by_pid meets: a request that raises
\* ("http_error": raise_for_status or timeout; "bad_json": response.json()),
\* a response without features, or a response whose first feature has the
\* given properties (None: "properties": null)
NoFeature == { [kind |-> k, properties |-> None] : k \in {"no_match", "http_error", "bad_json"} }

GisFeature(properties) == [kind |-> "feature", properties |-> properties]

\* a faulty variant of get_parcel_by_pid: no try/except around the request
get_parcel_by_pid_uncaught(response) ==
    IF response.kind \in {"http_error", "bad_json"} THEN Raise
    ELSE IF response.kind = "no_match" THEN Return(None)
    ELSE Return(Some(response))

\* get_parcel_by_pid: Some(feature), or None when nothing was found or the
\* request raised (except Exception: return None)
get_parcel_by_pid(response) ==
    IF response \in NoFeature THEN Return(None)
    ELSE Return(Some(response))

\* the dict of petition and meeting fields merged into a feature
PetitionMetadata(petition, meeting_date, meeting_type) ==
    [petition_number |-> IF petition.petition_number # None
                         THEN petition.petition_number[1]
                         ELSE petition.file_number,
     file_number     |-> petition.file_number,
     location        |-> petition.location,
     status          |-> petition.status,
     current_zoning  |-> petition.current_zoning,
     proposed_zoning |-> petition.proposed_zoning,
     petitioner      |-> petition.petitioner,
     meeting_date    |-> meeting_date,
     meeting_type    |-> meeting_type]

\* petitions_with_pins = [p for p in petitions if p.pins and len(p.pins) > 0]
petitions_with_pins(petitions) ==
    SelectSeq(petitions, LAMBDA p : p.pins # None /\ Len(p.pins[1]) > 0)

\* the locals of fetch_parcels_for_petitions when its loop starts
LookupLocals == [all_features |-> << >>, total_parcels |-> 0, total_found |-> 0, raised |-> FALSE]

\* a faulty variant of CountFound: a lookup without a match is counted as found
CountFoundAlways(total_found, parcel) == total_found + 1

\* total_found += 1, in the branch "if parcel"
CountFound(total_found, parcel) == IF parcel # None THEN total_found + 1 ELSE total_found

\* the body of "for pin in pins": the locals after it; raised when an
\* exception leaves the loop
LookupBody(st, petition, meeting_date, meeting_type, response) ==
    LET counted == [st EXCEPT !.total_parcels = st.total_parcels + 1]
        r       == get_parcel_by_pid(response)
    IN  IF r.raised THEN [counted EXCEPT !.raised = TRUE]
        ELSE IF r.value = None
        THEN [counted EXCEPT !.total_found = CountFound(st.total_found, r.value)]
        ELSE IF r.value[1].properties = None
        THEN [counted EXCEPT !.raised = TRUE]     \* None has no attribute update
        ELSE [counted EXCEPT
                !.all_features = Append(st.all_features,
                    [properties |-> Update(r.value[1].properties[1],
                                           PetitionMetadata(petition, meeting_date, meeting_type))]),
                !.total_found = CountFound(st.total_found, r.value)]

\* a faulty variant of ExtendFeatures: a parcel already present is not added
RECURSIVE ExtendFeaturesOncePerParcel(_, _)
ExtendFeaturesOncePerParcel(all, features) ==
    IF features = << >> THEN all
    ELSE ExtendFeaturesOncePerParcel(
             IF \E i \in 1..Len(all) : all[i].properties.PID = Head(features).properties.PID
             THEN all ELSE Append(all, Head(features)),
             Tail(features))

\* all_features.extend(geojson['features'])
ExtendFeatures(all, features) == all \o features

(***************************************************************************)
(* Inputs of geometry resolution                                           *)
(***************************************************************************)
\* attributes of the parcel layer; the second parcel layer has a field
\* named status as well
GisAttributes(pin) == [PID |-> pin, NC_PIN |-> "N"]

GisAttributesWithStatus(pin) == [PID |-> pin, NC_PIN |-> "N", status |-> "ACTIVE"]

\* what the query for a pin may meet
GisResponses(pin) ==
    NoFeature \cup { GisFeature(Some(GisAttributes(pin))),
                     GisFeature(Some(GisAttributesWithStatus(pin))),
                     GisFeature(None) }

PetA ==
    [file_number |-> "15-25343", petition_number |-> Some("2025-103"),
     location |-> "Elm St", status |-> "Filed", current_zoning |-> "R-3",
     proposed_zoning |-> "B-1", petitioner |-> "Acme",
     pins |-> Some(<< Pin02217101, Pin12305310 >>)]
\* a second filing on a parcel of PetA
PetB ==
    [file_number |-> "15-25344", petition_number |-> Some("2025-104"),
     location |-> "Oak Av", status |-> "Approved", current_zoning |-> "R-3",
     proposed_zoning |-> "O-2", petitioner |-> "None",
     pins |-> Some(<< Pin12305310 >>)]
\* a third filing on the same parcel, heard at the meeting of PetB
PetC ==
    [file_number |-> "15-25346", petition_number |-> Some("2025-105"),
     location |-> "Oak Av", status |-> "Filed", current_zoning |-> "R-3",
     proposed_zoning |-> "MUDD", petitioner |-> "Birch LLC",
     pins |-> Some(<< Pin12305310 >>)]
PetNoPins ==
    [file_number |-> "15-25345", petition_number |-> None,
     location |-> "None", status |-> "None", current_zoning |-> "None",
     proposed_zoning |-> "None", petitioner |-> "None", pins |-> None]

MeetingUniverse ==
    { [meeting_date |-> "2025-01-21", meeting_type |-> "Zoning Committee",
       petitions |-> << PetNoPins, PetA >>],
      [meeting_date |-> "2025-02-17", meeting_type |-> "City Council Zoning Meeting",
       petitions |-> << PetB, PetC >>],
      [meeting_date |-> "2025-03-04", meeting_type |-> "Planning Committee",
       petitions |-> << PetNoPins >>] }

(***************************************************************************)
(* Calendar page (LegistarScraper.fetch_calendar).  Dates are strings      *)
(* (character sequences); a month name is one element of the sequence.     *)
(***************************************************************************)
DigitValue(c) == CodePoint(c) - 2

RECURSIVE Number(_)
Number(s) == IF s = << >> THEN 0 ELSE 10 * Number(SubSeq(s, 1, Len(s) - 1)) + DigitValue(s[Len(s)])

IsDigits(s) == \A i \in 1..Len(s) : s[i] \in Digits

MonthNames == << "January", "February", "March", "April", "May", "June", "July",
                 "August", "September", "October", "November", "December" >>

DaysInMonth(y, m) ==
    IF m = 2 THEN (IF y % 4 = 0 /\ (y % 100 # 0 \/ y % 400 = 0) THEN 29 ELSE 28)
    ELSE IF m \in {4, 6, 9, 11} THEN 30 ELSE 31

\* datetime(y, m, d) exists
ValidDate(y, m, d) == y >= 1 /\ m \in 1..12 /\ d >= 1 /\ d <= DaysInMonth(y, m)

TwoDigits(n) == << CharOrder[(n \div 10) + 2], CharOrder[(n % 10) + 2] >>

\* dt.strftime('%Y-%m-%d') for a four-digit year
strftime(y, m, d) == y \o << "-" >> \o TwoDigits(m) \o << "-" >> \o TwoDigits(d)

\* _parse_date: Some(ISO string) for a string in one of the formats
\* '%m/%d/%Y', '%Y-%m-%d', '%B %d, %Y' that names a date, None otherwise
parse_date(s) ==
    IF /\ Len(s) = 10 /\ s[3] = "/" /\ s[6] = "/"
       /\ IsDigits(SubSeq(s, 1, 2) \o SubSeq(s, 4, 5) \o SubSeq(s, 7, 10))
       /\ ValidDate(Number(SubSeq(s, 7, 10)), Number(SubSeq(s, 1, 2)), Number(SubSeq(s, 4, 5)))
    THEN Some(strftime(SubSeq(s, 7, 10), Number(SubSeq(s, 1, 2)), Number(SubSeq(s, 4, 5))))
    ELSE IF /\ Len(s) = 10 /\ s[5] = "-" /\ s[8] = "-"
            /\ IsDigits(SubSeq(s, 1, 4) \o SubSeq(s, 6, 7) \o SubSeq(s, 9, 10))
            /\ ValidDate(Number(SubSeq(s, 1, 4)), Number(SubSeq(s, 6, 7)), Number(SubSeq(s, 9, 10)))
    THEN Some(strftime(SubSeq(s, 1, 4), Number(SubSeq(s, 6, 7)), Number(SubSeq(s, 9, 10))))
    ELSE IF /\ Len(s) \in {9, 10} /\ s[1] \in SeqToSet(MonthNames) /\ s[2] = " "
            /\ s[Len(s) - 5] = "," /\ s[Len(s) - 4] = " "
            /\ IsDigits(SubSeq(s, 3, Len(s) - 6) \o SubSeq(s, Len(s) - 3, Len(s)))
            /\ ValidDate(Number(SubSeq(s, Len(s) - 3, Len(s))),
                         CHOOSE m \in 1..12 : MonthNames[m] = s[1],
                         Number(SubSeq(s, 3, Len(s) - 6)))
    THEN Some(strftime(SubSeq(s, Len(s) - 3, Len(s)),
                       CHOOSE m \in 1..12 : MonthNames[m] = s[1],
                       Number(SubSeq(s, 3, Len(s) - 6))))
    ELSE None

\* a faulty variant of parse_calendar_row: no try/except around the parsing
parse_calendar_row_uncaught(row) ==
    IF row.cells < 5 THEN Return(None)
    ELSE IF parse_date(row.date_str) = None THEN Return(None)
    ELSE IF row.details = "none" THEN Return(None)
    ELSE IF row.details = "no href" THEN Raise
    ELSE Return(Some([meeting_type |-> row.meeting_type,
                      meeting_date |-> parse_date(row.date_str)[1]]))

\* _parse_calendar_row: Some(meeting), or None for a row with fewer than
\* five cells, without a parseable date or without a details link, and for
\* a row on which the parsing raises (a details link without href, for which
\* Meeting(...) raises a validation error)
parse_calendar_row(row) ==
    IF row.cells < 5 THEN Return(None)
    ELSE IF parse_date(row.date_str) = None THEN Return(None)
    ELSE IF row.details = "none" THEN Return(None)
    ELSE IF row.details = "no href" THEN Return(None)     \* except Exception
    ELSE Return(Some([meeting_type |-> row.meeting_type,
                      meeting_date |-> parse_date(row.date_str)[1]]))

\* a <= b for strings, as Python compares them
StrLessEq(a, b) == a = b \/ StrLess(a, b)

\* a faulty variant of filter_by_date: the upper bound is exclusive
filter_by_date_exclusive(filter_meetings, start_date, end_date) ==
    LET from_start == IF start_date # None
                      THEN SelectSeq(filter_meetings, LAMBDA m : StrLessEq(start_date[1], m.meeting_date))
                      ELSE filter_meetings
    IN  IF end_date # None
        THEN SelectSeq(from_start, LAMBDA m : StrLess(m.meeting_date, end_date[1]))
        ELSE from_start

\* _filter_by_date
filter_by_date(filter_meetings, start_date, end_date) ==
    LET from_start == IF start_date # None
                      THEN SelectSeq(filter_meetings, LAMBDA m : StrLessEq(start_date[1], m.meeting_date))
                      ELSE filter_meetings
    IN  IF end_date # None
        THEN SelectSeq(from_start, LAMBDA m : StrLessEq(m.meeting_date, end_date[1]))
        ELSE from_start

(***************************************************************************)
(* Inputs of the calendar parser                                           *)
(***************************************************************************)
Date_2026_01_10 == << "2", "0", "2", "6", "-", "0", "1", "-", "1", "0" >>
Date_2026_01_20 == << "2", "0", "2", "6", "-", "0", "1", "-", "2", "0" >>
Str_01_20_2026  == << "0", "1", "/", "2", "0", "/", "2", "0", "2", "6" >>
Str_12_31_2025  == << "1", "2", "/", "3", "1", "/", "2", "0", "2", "5" >>
Str_January_5   == << "January", " ", "5", ",", " ", "2", "0", "2", "6" >>
Str_02_30_2026  == << "0", "2", "/", "3", "0", "/", "2", "0", "2", "6" >>
Str_TBD         == << "T", "B", "D" >>

CalendarRow(cells, type, date_str, details) ==
    [cells |-> cells, meeting_type |-> type, date_str |-> date_str, details |-> details]

\* rows of the calendar table: complete rows in the three date formats, a
\* row of four cells, rows whose date is no date, a row of five cells (no
\* details cell), a row whose details link has no href
CalendarRows ==
    { CalendarRow(7, "Zoning Committee", Str_01_20_2026, "link"),
      CalendarRow(7, "City Council Business Meeting", Date_2026_01_10, "link"),
      CalendarRow(6, "Planning Committee", Str_January_5, "link"),
      CalendarRow(7, "Zoning Committee", Str_12_31_2025, "link"),
      CalendarRow(4, "Zoning Committee", Str_01_20_2026, "link"),
      CalendarRow(7, "Zoning Committee", Str_TBD, "link"),
      CalendarRow(7, "Zoning Committee", Str_02_30_2026, "link"),
      CalendarRow(5, "Zoning Committee", Date_2026_01_20, "none"),
      CalendarRow(7, "Zoning Committee", Date_2026_01_20, "no href") }

\* the values of start_date and end_date that main lets through
DateBounds == { None, Some(Date_2026_01_10), Some(Date_2026_01_20) }

(***************************************************************************)
(* parse_pdf and its backends (pdf_parser.py).  A text is known by its     *)
(* length and by the backend that extracted it; the empty string is the    *)
(* same whoever returned it.                                               *)
(***************************************************************************)
MinTextLength == 100

EmptyText == [by |-> "none", chars |-> 0]

RaiseError(kind) == [raised |-> TRUE, value |-> kind]

\* _parse_with_pdfplumber / _parse_with_pypdf2: the text and the page count;
\* ("", 0) when the library raises (except Exception: return "", 0)
parse_with(backend, outcome) ==
    IF outcome.raises THEN [text |-> EmptyText, page_count |-> 0]
    ELSE [text |-> IF outcome.chars = 0 THEN EmptyText
                   ELSE [by |-> backend, chars |-> outcome.chars],
          page_count |-> outcome.pages]

\* a faulty variant of FallbackWanted: a text of 100 characters is too short
FallbackWantedAtThreshold(text_content, available) ==
    text_content.chars <= MinTextLength /\ available.pypdf2 /\ available.pdfplumber

\* len(text_content) < 100 and PYPDF2_AVAILABLE and PDFPLUMBER_AVAILABLE
FallbackWanted(text_content, available) ==
    text_content.chars < MinTextLength /\ available.pypdf2 /\ available.pdfplumber

\* what a backend meets on a file: the library raises, or it extracts a text
\* of some length from some number of pages
BackendOutcomes ==
    { [raises |-> TRUE, chars |-> 0, pages |-> 0] }
    \cup { [raises |-> FALSE, chars |-> c, pages |-> 2] : c \in {0, 50, 99, 100, 250} }

(***************************************************************************)
(* Storage (storage.py).  A JSON value is null, a string or a list; a JSON *)
(* text is a sequence of tokens.  In a petition record the string "None"   *)
(* stands for the value None of an optional text field.                    *)
(***************************************************************************)
JNull == [t |-> "null", v |-> << >>]

JStr(s) == [t |-> "str", v |-> << s >>]

JList(q) == [t |-> "list", v |-> q]

Token(k, v) == [k |-> k, v |-> << v >>]

PetitionKeys ==
    << "file_number", "petition_number", "location", "status", "current_zoning",
       "proposed_zoning", "petitioner", "pins", "meeting_date", "meeting_type" >>

\* petition.model_dump(mode='json') with the meeting context added to it
PetitionDict(petition, meeting) ==
    LET text(v) == IF v = "None" THEN JNull ELSE JStr(v)
    IN  [file_number     |-> JStr(petition.file_number),
         petition_number |-> IF petition.petition_number = None THEN JNull
                             ELSE JStr(petition.petition_number[1]),
         location        |-> text(petition.location),
         status          |-> text(petition.status),
         current_zoning  |-> text(petition.current_zoning),
         proposed_zoning |-> text(petition.proposed_zoning),
         petitioner      |-> text(petition.petitioner),
         pins            |-> IF petition.pins = None THEN JNull ELSE JList(petition.pins[1]),
         meeting_date    |-> JStr(meeting.meeting_date),
         meeting_type    |-> JStr(meeting.meeting_type)]

\* all_petitions of save_petitions: the petitions of the meetings, flattened
RECURSIVE FlattenPetitions(_)
FlattenPetitions(ms) ==
    IF ms = << >> THEN << >>
    ELSE [p \in 1..Len(Head(ms).petitions) |-> PetitionDict(Head(ms).petitions[p], Head(ms))]
         \o FlattenPetitions(Tail(ms))

\* a faulty variant of EncodeValue: None is written as the text "None"
EncodeValueNoneAsText(value) ==
    IF value.t = "null" THEN << Token("str", "None") >>
    ELSE IF value.t = "str" THEN << Token("str", value.v[1]) >>
    ELSE << Token("[", "") >> \o [i \in 1..Len(value.v) |-> Token("str", value.v[i])]
         \o << Token("]", "") >>

\* json.dump of one value
EncodeValue(value) ==
    IF value.t = "null" THEN << Token("null", "") >>
    ELSE IF value.t = "str" THEN << Token("str", value.v[1]) >>
    ELSE << Token("[", "") >> \o [i \in 1..Len(value.v) |-> Token("str", value.v[i])]
         \o << Token("]", "") >>

\* json.dump of one dict with the keys of a petition
RECURSIVE EncodePairs(_, _)
EncodePairs(dict, keys) ==
    IF keys = << >> THEN << >>
    ELSE << Token("key", Head(keys)) >> \o EncodeValue(dict[Head(keys)])
         \o EncodePairs(dict, Tail(keys))

\* json.dump of a list of petition dicts
RECURSIVE EncodeList(_)
EncodeList(dicts) ==
    IF dicts = << >> THEN << >>
    ELSE << Token("{", "") >> \o EncodePairs(Head(dicts), PetitionKeys) \o << Token("}", "") >>
         \o EncodeList(Tail(dicts))

\* json.load: a list value, from the token after "["
RECURSIVE DecodeItems(_, _)
DecodeItems(tokens, items) ==
    IF Head(tokens).k = "]" THEN [value |-> JList(items), rest |-> Tail(tokens)]
    ELSE DecodeItems(Tail(tokens), Append(items, Head(tokens).v[1]))

\* json.load of one value
DecodeValue(tokens) ==
    IF Head(tokens).k = "null" THEN [value |-> JNull, rest |-> Tail(tokens)]
    ELSE IF Head(tokens).k = "str" THEN [value |-> JStr(Head(tokens).v[1]), rest |-> Tail(tokens)]
    ELSE DecodeItems(Tail(tokens), << >>)

\* json.load of the pairs of one dict, from the token after "{"
RECURSIVE DecodePairs(_, _)
DecodePairs(tokens, dict) ==
    IF Head(tokens).k = "}" THEN [value |-> dict, rest |-> Tail(tokens)]
    ELSE LET item == DecodeValue(Tail(tokens))
         IN  DecodePairs(item.rest, Update(dict, Head(tokens).v[1] :> item.value))

\* json.load of a list of dicts
RECURSIVE DecodeList(_, _)
DecodeList(tokens, dicts) ==
    IF tokens = << >> THEN dicts
    ELSE LET d == DecodePairs(Tail(tokens), << >>)
         IN  DecodeList(d.rest, Append(dicts, d.value))

\* the content save_petitions writes
petitions_file(ms) ==
    [petitions |-> EncodeList(FlattenPetitions(ms)), total_count |-> Len(FlattenPetitions(ms))]

\* a faulty variant of total_petitions: petitions without a number are left out
RECURSIVE total_petitions_with_number(_)
total_petitions_with_number(ms) ==
    IF ms = << >> THEN 0
    ELSE Len(SelectSeq(Head(ms).petitions, LAMBDA p : p.petition_number # None))
         + total_petitions_with_number(Tail(ms))

\* sum(len(m.petitions) for m in meetings)
RECURSIVE total_petitions(_)
total_petitions(ms) ==
    IF ms = << >> THEN 0 ELSE Len(Head(ms).petitions) + total_petitions(Tail(ms))

\* sum(1 for m in meetings for p in m.petitions if p.pins and len(p.pins) > 0)
RECURSIVE count_with_pins(_)
count_with_pins(ms) ==
    IF ms = << >> THEN 0
    ELSE Len(petitions_with_pins(Head(ms).petitions)) + count_with_pins(Tail(ms))

\* sum(len(p.pins) for ... if p.pins), over the petitions of one meeting
RECURSIVE pins_of(_)
pins_of(petitions) ==
    IF petitions = << >> THEN 0
    ELSE (IF Head(petitions).pins # None /\ Head(petitions).pins[1] # << >>
          THEN Len(Head(petitions).pins[1]) ELSE 0) + pins_of(Tail(petitions))

RECURSIVE total_pins(_)
total_pins(ms) == IF ms = << >> THEN 0 ELSE pins_of(Head(ms).petitions) + total_pins(Tail(ms))

\* a faulty variant of stats_file: every petition with a pins value counts
stats_file_counts_empty(ms) ==
    [total_meetings |-> Len(ms), total_petitions |-> total_petitions(ms),
     petitions_with_pins |-> Len(SelectSeq(FlattenPetitions(ms), LAMBDA d : d.pins # JNull)),
     total_pins |-> total_pins(ms)]

\* the content save_stats writes (without zoning_meetings and the time)
stats_file(ms) ==
    [total_meetings |-> Len(ms), total_petitions |-> total_petitions(ms),
     petitions_with_pins |-> count_with_pins(ms), total_pins |-> total_pins(ms)]

\* a petition whose pins are the empty list
PetEmptyPins ==
    [file_number |-> "15-25347", petition_number |-> Some("2025-106"),
     location |-> "None", status |-> "Filed", current_zoning |-> "None",
     proposed_zoning |-> "None", petitioner |-> "None", pins |-> Some(<< >>)]

StoredMeetings ==
    MeetingUniverse
    \cup { [meeting_date |-> "2025-04-15", meeting_type |-> "Zoning Committee",
            petitions |-> << PetEmptyPins, PetB >>] }

\* the keys of COUNTIES (config.py)
COUNTIES == {"charlotte_nc", "durham_nc"}

\* the methods class Storage defines
StorageMethods ==
    {"save_meetings", "save_petitions", "save_stats", "load_meetings", "load_petitions",
     "get_stats", "save_parcels_geojson", "load_parcels_geojson"}

NoFiles == [meetings |-> None, petitions |-> None, parcels |-> None, stats |-> None]

\* load_petitions: [] when the file is missing, else data['petitions']
load_petitions(files) ==
    IF files.petitions = None THEN << >>
    ELSE DecodeList(files.petitions[1].petitions, << >>)

\* get_stats: ScraperStats() when the file is missing, else ScraperStats(**data)
get_stats(files) ==
    IF files.stats = None
    THEN [total_meetings |-> 0, total_petitions |-> 0, petitions_with_pins |-> 0,
          total_pins |-> 0]
    ELSE files.stats[1]

\* sum(len(p.get('pins') or []) for p in petitions)
RECURSIVE SumPins(_)
SumPins(petitions) ==
    IF petitions = << >> THEN 0
    ELSE (IF Head(petitions).pins = JNull THEN 0 ELSE Len(Head(petitions).pins.v))
         + SumPins(Tail(petitions))

\* what _print_summary prints
print_summary(files) ==
    LET stats     == get_stats(files)
        petitions == load_petitions(files)
    IN  [total_meetings      |-> stats.total_meetings,
         total_petitions     |-> stats.total_petitions,
         petitions_with_pins |->
             Len(SelectSeq(petitions, LAMBDA p : p.pins # JNull /\ p.pins.v # << >>)),
         total_pins          |-> SumPins(petitions)]

(***************************************************************************)
(* The alert cron job (backend/alerts_cron.py).  A request to the agent    *)
(* meets one of AgentOutcomes: "timeout" is requests.exceptions.Timeout,   *)
(* "http_error" is raise_for_status raising, "connection_error" is another *)
(* RequestException of requests.post, "bad_json" is response.json raising. *)
(***************************************************************************)
max_retries == 3

AgentOutcomes == {"ok", "timeout", "http_error", "connection_error", "bad_json"}

\* the exception an outcome raises
ErrorOf(outcome) ==
    CASE outcome = "timeout"          -> "Timeout"
      [] outcome = "http_error"       -> "HTTPError"
      [] outcome = "connection_error" -> "ConnectionError"
      [] outcome = "bad_json"         -> "JSONDecodeError"

\* a faulty variant of after_attempt: every request error is retried
after_attempt_retries_errors(attempt, outcome) ==
    IF outcome = "ok" THEN "return"
    ELSE IF attempt = max_retries - 1 THEN "raise" ELSE "retry"

\* how one iteration of "for attempt in range(max_retries)" ends
after_attempt(attempt, outcome) ==
    IF outcome = "ok" THEN "return"
    ELSE IF outcome = "timeout"
    THEN IF attempt = max_retries - 1 THEN "raise" ELSE "retry"
    ELSE "raise"

(***************************************************************************)
(* A notification of the agent's JSON: whether it is an object, its email, *)
(* what its "petitions" is, and what SMTP does when the email is sent.     *)
(***************************************************************************)
Notification(is_dict, email, petitions, smtp) ==
    [is_dict |-> is_dict, email |-> email, petitions |-> petitions, smtp |-> smtp]

\* email_service.send_alert_email: True when the message was sent; every
\* exception (a petition without 'petition_number', SMTP) gives False
send_alert_email(notification) ==
    notification.petitions = "list" /\ notification.smtp = "ok"

\* one iteration of the loop of send_notifications: "success", "failure",
\* "skipped", or "raised" when the except clause itself raises
\* (notification.get of a value that is no dict)
process_notification(notification) ==
    IF ~notification.is_dict THEN "raised"
    ELSE IF notification.email = None \/ notification.petitions \in {"missing", "empty"}
    THEN "skipped"
    ELSE IF notification.petitions = "number" THEN "failure"
    ELSE IF send_alert_email(notification) THEN "success" ELSE "failure"

NoteOk == Notification(TRUE, Some("a@example.org"), "list", "ok")

NoteSmtpDown == Notification(TRUE, Some("b@example.org"), "list", "down")

NoteNoEmail == Notification(TRUE, None, "list", "ok")

NoteNoPetitions == Notification(TRUE, Some("c@example.org"), "empty", "ok")

NotePetitionsMissing == Notification(TRUE, Some("c@example.org"), "missing", "ok")

NotePetitionWithoutNumber == Notification(TRUE, Some("d@example.org"), "list_without_number", "ok")

\* "petitions": 2 in the agent's JSON: len(petitions) raises TypeError
NotePetitionsNumber == Notification(TRUE, Some("e@example.org"), "number", "ok")

\* a notification that is a JSON string
NoteText == Notification(FALSE, None, "missing", "ok")

NotificationUniverse ==
    { NoteOk, NoteSmtpDown, NoteNoEmail, NoteNoPetitions, NotePetitionsMissing,
      NotePetitionWithoutNumber, NotePetitionsNumber, NoteText }

(***************************************************************************)
(* State                                                                   *)
(***************************************************************************)
VARIABLES
    \* PINExtractor.extract_from_directory / extract_batch in progress
    exMode,        \* "idle", "directory" or "batch"
    exDocs,        \* pdf_files / pdf_paths
    exIdx,         \* index of the next document of the loop
    all_pins,      \* the set all_pins
    exResult,      \* None while running, Some(Return(..) or Raise) at the end
    \* LegistarScraper.download_petition_attachments in progress
    dlPc,          \* "idle", "page", "loop" or "done"
    dlPetition,    \* petition_number
    attachments,   \* the list attachments found on the legislation page
    dlIdx,         \* index of the next attachment of the loop
    dlState,       \* downloaded_files, the files on disk, the requests issued
    dlOutcomes,    \* the outcome of each attempt made, in order
    dlReturned,    \* None while running, Some(returned list) at the end
    \* one run of main with a county argument
    pc,            \* the step of TownhallOrchestrator.run in progress
    selected,      \* scrape_all: the zoning meetings of the calendar
    detailIdx,     \* scrape_all: index of the next meeting of the detail loop
    meetings,      \* detailed_meetings, then the list run passes on
    procIdx,       \* _process_petitions: index of the next petition position
    attachFs,      \* the files under data/pdfs/attachments
    gisIdx,        \* geometry: index of the next lookup
    all_features,  \* geometry: the features collected so far
    parcel_geojson, \* None, then Some(features of self._parcel_geojson)
    saveIdx,       \* _save_data: index of the next artifact
    store,         \* the artifacts of the county's data directory
    result,        \* None, then Some(what run_county returned)
    exitStatus,    \* None, then Some(status main exits with)
    log,           \* what happened so far: requests, failures, writes
    sessions,      \* the HTTP client sessions created, each open or closed
    \* run_all_counties
    allPc,         \* "idle", "loop", "returned" or "raised"
    countyEnabled, \* COUNTIES: the enabled flag of each county
    countyOutcome, \* what the run of each county meets
    enabled,       \* the list enabled
    allIdx,        \* index of the next county of the loop
    results,       \* the dict results
    \* GISFetcher.fetch_parcels_for_all_meetings in progress
    geoPc,         \* "idle", "meeting", "pin", "return", "done" or "raised"
    geoMeetings,   \* the argument meetings
    geoM,          \* index of the meeting of the outer loop
    geoPet,        \* index of the petition in petitions_with_pins
    geoPin,        \* index of the pin in the petition's pins
    geoLocals,     \* all_features, total_parcels, total_found of the call
    geoAll,        \* all_features of fetch_parcels_for_all_meetings
    geoTrace,      \* the lookups issued so far and what they met
    geoResult,     \* None, then Some(features returned)
    \* LegistarScraper.fetch_calendar in progress
    calPc,         \* "idle", "fetch", "rows" or "done"
    calRows,       \* meeting_rows
    calStart,      \* start_date
    calEnd,        \* end_date
    calIdx,        \* index of the next row of the loop
    calMeetings,   \* the list meetings
    calParsed,     \* what _parse_calendar_row returned for each row, in order
    calResult,     \* None, then Some(Return(list) or Raise)
    \* parse_pdf in progress
    ppPc,          \* "idle", "start", "first", "gate", "return" or "done"
    ppExists,      \* pdf_path_obj.exists()
    ppAvailable,   \* PDFPLUMBER_AVAILABLE, PYPDF2_AVAILABLE
    ppOutcome,     \* what each backend meets on the file
    ppCalls,       \* the backends invoked, in order
    ppParsed,      \* text_content, page_count
    ppResult,      \* None, then Some(Return(result) or RaiseError(kind))
    \* Storage: _save_data, load_petitions and main --stats on one directory
    stPc,          \* "idle", the save in progress, "saved", "cli", "verify", "exited"
    stMeetings,    \* the argument meetings of _save_data
    stHasParcels,  \* hasattr(self, '_parcel_geojson')
    stCounty,      \* args.county
    stFiles,       \* the content of each artifact, None when the file is missing
    stLoaded,      \* None, then Some(what load_petitions returned)
    stPrinted,     \* None, then Some(the summary printed)
    stExit,        \* None, then Some(exit status of main)
    stTrace,       \* the file operations so far, in order
    \* call_alert_checker_agent in progress
    alPc,          \* "idle", "loop" or "done"
    alOutcomes,    \* what each request to the agent meets
    attempt,       \* the loop variable attempt
    alTrace,       \* the requests issued and the sleeps, in order
    alResult,      \* None, then Some(Return(data) or RaiseError(kind))
    \* send_notifications and the exit of the cron job
    ntPc,          \* "idle", "loop", "returned", "raised" or "exited"
    notifications, \* the argument notifications
    ntIdx,         \* index of the next notification of the loop
    success_count, \* success_count
    failure_count, \* failure_count
    ntSends,       \* the notifications send_alert_email was called for, in order
    ntExit         \* None, then Some(exit status of the cron job)

exVars == << exMode, exDocs, exIdx, all_pins, exResult >>
dlVars == << dlPc, dlPetition, attachments, dlIdx, dlState, dlOutcomes, dlReturned >>

runVars ==
    << pc, selected, detailIdx, meetings, procIdx, attachFs, gisIdx, all_features,
       parcel_geojson, saveIdx, store, result, exitStatus, log, sessions >>

allVars == << allPc, countyEnabled, countyOutcome, enabled, allIdx, results >>

geoVars ==
    << geoPc, geoMeetings, geoM, geoPet, geoPin, geoLocals, geoAll, geoTrace, geoResult >>

calVars == << calPc, calRows, calStart, calEnd, calIdx, calMeetings, calParsed, calResult >>

ppVars == << ppPc, ppExists, ppAvailable, ppOutcome, ppCalls, ppParsed, ppResult >>

stVars ==
    << stPc, stMeetings, stHasParcels, stCounty, stFiles, stLoaded, stPrinted, stExit,
       stTrace >>

alVars == << alPc, alOutcomes, attempt, alTrace, alResult >>

ntVars ==
    << ntPc, notifications, ntIdx, success_count, failure_count, ntSends, ntExit >>

vars ==
    << exVars, dlVars, runVars, allVars, geoVars, calVars, ppVars, stVars, alVars, ntVars >>

ExIdle ==
    /\ exMode = "idle" /\ exDocs = << >> /\ exIdx = 1
    /\ all_pins = {} /\ exResult = None

DlIdle ==
    /\ dlPc = "idle" /\ dlPetition = "" /\ attachments = << >> /\ dlIdx = 1
    /\ dlState = DownloadState({}) /\ dlOutcomes = << >> /\ dlReturned = None

RunIdle ==
    /\ pc = "idle" /\ selected = << >> /\ detailIdx = 1 /\ meetings = << >>
    /\ procIdx = 1 /\ attachFs = {} /\ gisIdx = 1 /\ all_features = << >>
    /\ parcel_geojson = None /\ saveIdx = 1
    /\ store = [a \in SeqToSet(Artifacts) |-> "old"]
    /\ result = None /\ exitStatus = None /\ log = << >> /\ sessions = << >>

StIdle ==
    /\ stPc = "idle" /\ stMeetings = << >> /\ stHasParcels = FALSE /\ stCounty = ""
    /\ stFiles = NoFiles /\ stLoaded = None /\ stPrinted = None /\ stExit = None
    /\ stTrace = << >>

AlIdle ==
    /\ alPc = "idle" /\ alOutcomes = << >> /\ attempt = 0 /\ alTrace = << >>
    /\ alResult = None

NtIdle ==
    /\ ntPc = "idle" /\ notifications = << >> /\ ntIdx = 1 /\ success_count = 0
    /\ failure_count = 0 /\ ntSends = << >> /\ ntExit = None

PpIdle ==
    /\ ppPc = "idle" /\ ppExists = FALSE
    /\ ppAvailable = [pdfplumber |-> FALSE, pypdf2 |-> FALSE]
    /\ ppOutcome = << >> /\ ppCalls = << >>
    /\ ppParsed = [text |-> EmptyText, page_count |-> 0] /\ ppResult = None

CalIdle ==
    /\ calPc = "idle" /\ calRows = << >> /\ calStart = None /\ calEnd = None
    /\ calIdx = 1 /\ calMeetings = << >> /\ calParsed = << >> /\ calResult = None

GeoIdle ==
    /\ geoPc = "idle" /\ geoMeetings = << >> /\ geoM = 1 /\ geoPet = 1 /\ geoPin = 1
    /\ geoLocals = LookupLocals /\ geoAll = << >> /\ geoTrace = << >> /\ geoResult = None

AllIdle ==
    /\ allPc = "idle" /\ countyEnabled = << >> /\ countyOutcome = << >>
    /\ enabled = << >> /\ allIdx = 1 /\ results = << >>

(***************************************************************************)
(* SpecExtract: extraction over a directory or a batch                     *)
(***************************************************************************)
InitExtract ==
    /\ StIdle
    /\ AlIdle
    /\ NtIdle
    /\ PpIdle
    /\ exMode \in {"directory", "batch"}
    /\ exDocs \in SeqsUpTo(DocUniverse, MaxDocs)
    \* glob lists existing files only
    /\ exMode = "directory" => \A i \in 1..Len(exDocs) : exDocs[i].exists
    /\ exIdx = 1
    /\ all_pins = {}
    /\ exResult = None
    /\ DlIdle
    /\ RunIdle
    /\ AllIdle
    /\ GeoIdle
    /\ CalIdle

\* one iteration of "for pdf_file in pdf_files" / "for pdf_path in pdf_paths"
ExtractOne ==
    /\ exMode \in {"directory", "batch"}
    /\ exResult = None
    /\ exIdx <= Len(exDocs)
    /\ LET r == extract_from_pdf(exDocs[exIdx])
       IN  IF r.raised
           THEN /\ exResult' = Some(IF exMode = "directory" THEN Return(<< >>) ELSE Raise)
                /\ UNCHANGED << exIdx, all_pins >>
           ELSE /\ all_pins' = all_pins \cup SeqToSet(r.value)
                /\ exIdx' = exIdx + 1
                /\ UNCHANGED exResult
    /\ UNCHANGED << exMode, exDocs >>
    /\ UNCHANGED << dlVars, runVars, allVars, geoVars, calVars, ppVars, stVars, alVars, ntVars >>

\* the loop is over: return sorted(list(all_pins))
ExtractReturn ==
    /\ exMode \in {"directory", "batch"}
    /\ exResult = None
    /\ exIdx > Len(exDocs)
    /\ exResult' = Some(Return(SortedList(all_pins)))
    /\ UNCHANGED << exMode, exDocs, exIdx, all_pins >>
    /\ UNCHANGED << dlVars, runVars, allVars, geoVars, calVars, ppVars, stVars, alVars, ntVars >>

NextExtract == ExtractOne \/ ExtractReturn

SpecExtract == InitExtract /\ [][NextExtract]_vars

(***************************************************************************)
(* SpecDownload: one call of download_petition_attachments                 *)
(***************************************************************************)
InitDownload ==
    /\ StIdle
    /\ AlIdle
    /\ NtIdle
    /\ PpIdle
    /\ ExIdle
    /\ dlPc = "page"
    /\ dlPetition = "2025-103"
    /\ attachments = << >>
    /\ dlIdx = 1
    /\ \E fs \in { {}, { StaleFile("2025-103") } } : dlState = DownloadState(fs)
    /\ dlOutcomes = << >>
    /\ dlReturned = None
    /\ RunIdle
    /\ AllIdle
    /\ GeoIdle
    /\ CalIdle

\* session.get(legislation_url), raise_for_status, _extract_attachments
DlFetchPage ==
    /\ dlPc = "page"
    /\ \E page \in { Raise } \cup { Return(a) : a \in SeqsUpTo(AttachmentUniverse, MaxAttachments) } :
         IF page.raised \/ page.value = << >>
         THEN /\ dlPc' = "done"
              /\ dlReturned' = Some(dlState.downloaded_files)
              /\ UNCHANGED attachments
         ELSE /\ dlPc' = "loop"
              /\ attachments' = page.value
              /\ UNCHANGED dlReturned
    /\ UNCHANGED << dlPetition, dlIdx, dlState, dlOutcomes >>
    /\ UNCHANGED << exVars, runVars, allVars, geoVars, calVars, ppVars, stVars, alVars, ntVars >>

\* one iteration of the download loop
DlAttempt ==
    /\ dlPc = "loop"
    /\ dlIdx <= Len(attachments)
    /\ \E outcome \in DownloadOutcomes :
         LET after == DownloadAttempt(dlState, dlPetition, dlIdx, attachments[dlIdx], outcome)
         IN  /\ dlState' = after
             /\ dlOutcomes' = Append(dlOutcomes, [i |-> dlIdx, outcome |-> outcome])
             /\ dlIdx' = NextAttachment(after, dlIdx, outcome)
    /\ UNCHANGED << dlPc, dlPetition, attachments, dlReturned >>
    /\ UNCHANGED << exVars, runVars, allVars, geoVars, calVars, ppVars, stVars, alVars, ntVars >>

\* return downloaded_files
DlReturn ==
    /\ dlPc = "loop"
    /\ dlIdx > Len(attachments)
    /\ dlPc' = "done"
    /\ dlReturned' = Some(dlState.downloaded_files)
    /\ UNCHANGED << dlPetition, attachments, dlIdx, dlState, dlOutcomes >>
    /\ UNCHANGED << exVars, runVars, allVars, geoVars, calVars, ppVars, stVars, alVars, ntVars >>

NextDownload == DlFetchPage \/ DlAttempt \/ DlReturn

SpecDownload == InitDownload /\ [][NextDownload]_vars

(***************************************************************************)
(* Spec: main with a county argument, one run of TownhallOrchestrator      *)
(***************************************************************************)
Logged(step, item, what) == Append(log, [step |-> step, item |-> item, what |-> what])

Init ==
    /\ StIdle
    /\ AlIdle
    /\ NtIdle
    /\ PpIdle
    /\ ExIdle
    /\ DlIdle
    /\ AllIdle
    /\ GeoIdle
    /\ CalIdle
    /\ pc = "start"
    /\ selected = << >>
    /\ detailIdx = 1
    /\ meetings = << >>
    /\ procIdx = 1
    /\ attachFs \in { {}, { StaleFile("2025-103") } }
    /\ gisIdx = 1
    /\ all_features = << >>
    /\ parcel_geojson = None
    /\ saveIdx = 1
    /\ store = [a \in SeqToSet(Artifacts) |-> "old"]
    /\ result = None
    /\ exitStatus = None
    /\ log = << >>
    /\ sessions = << >>

\* run returns success to run_county, run_county to main, main exits
Returns(success) ==
    /\ pc' = "done"
    /\ result' = Some(success)
    /\ exitStatus' = Some(ExitStatus(success))

\* the step ended without an exception: go on with the next statement of run
Advance(step) ==
    IF StepAfter(step) = "done"
    THEN Returns(TRUE)
    ELSE pc' = StepAfter(step) /\ UNCHANGED << result, exitStatus >>

\* run_county: TownhallOrchestrator(county_id), which raises for an unknown
\* county or a data directory that cannot be created
Construct ==
    /\ pc = "start"
    /\ \E ok \in BOOLEAN :
         IF ok
         THEN Advance("start") /\ log' = Logged("start", 0, "ok")
         ELSE Returns(FALSE) /\ log' = Logged("start", 0, "raised")
    /\ UNCHANGED << selected, detailIdx, meetings, procIdx, attachFs, gisIdx,
                    all_features, parcel_geojson, saveIdx, store >>
    /\ UNCHANGED sessions
    /\ UNCHANGED << exVars, dlVars, allVars, geoVars, calVars, ppVars, stVars, alVars, ntVars >>

\* scrape_all: fetch_calendar and the zoning filter; an unreachable calendar
\* raises through _scrape_meetings into run, which returns False
FetchCalendar ==
    /\ pc = "calendar"
    /\ \E page \in { Raise } \cup { Return(CalendarOf(t)) : t \in SeqsUpTo(MeetingTypes, MaxMeetings) } :
         IF page.raised
         THEN /\ Returns(FALSE)
              /\ log' = Logged("calendar", 0, "raised")
              /\ UNCHANGED selected
         ELSE /\ Advance("calendar")
              /\ log' = Logged("calendar", Len(page.value), "ok")
              /\ selected' = FilterZoning(page.value)
    /\ UNCHANGED << detailIdx, meetings, procIdx, attachFs, gisIdx,
                    all_features, parcel_geojson, saveIdx, store >>
    /\ sessions' = IF pc' = "done"          \* the exception leaves the async with
                   THEN aexit(aenter(sessions, "scrape"), "scrape")
                   ELSE aenter(sessions, "scrape")
    /\ UNCHANGED << exVars, dlVars, allVars, geoVars, calVars, ppVars, stVars, alVars, ntVars >>

\* scrape_all: one iteration of the detail loop
FetchMeetingDetails ==
    /\ pc = "details"
    /\ detailIdx <= Len(selected)
    /\ \E page \in { Raise } \cup { Return(rows) : rows \in Agendas } :
         IF page.raised
         THEN /\ log' = Logged("details", selected[detailIdx].id, "raised")
              /\ UNCHANGED meetings                  \* except Exception: continue
         ELSE /\ log' = Logged("details", selected[detailIdx].id, "ok")
              /\ meetings' = Append(meetings,
                     [id |-> selected[detailIdx].id,
                      meeting_type |-> selected[detailIdx].meeting_type,
                      petitions |-> ParseAgenda(page.value)])
    /\ detailIdx' = detailIdx + 1
    /\ UNCHANGED << pc, selected, procIdx, attachFs, gisIdx, all_features,
                    parcel_geojson, saveIdx, store, result, exitStatus >>
    /\ UNCHANGED sessions
    /\ UNCHANGED << exVars, dlVars, allVars, geoVars, calVars, ppVars, stVars, alVars, ntVars >>

\* scrape_all returns detailed_meetings; run: "if not meetings: return False"
DetailsDone ==
    /\ pc = "details"
    /\ detailIdx > Len(selected)
    /\ IF meetings = << >>
       THEN Returns(NoMeetingsResult) /\ log' = Logged("details", 0, "no meetings")
       ELSE Advance("details") /\ UNCHANGED log
    /\ UNCHANGED << selected, detailIdx, meetings, procIdx, attachFs, gisIdx,
                    all_features, parcel_geojson, saveIdx, store >>
    /\ sessions' = aexit(sessions, "scrape")
    /\ UNCHANGED << exVars, dlVars, allVars, geoVars, calVars, ppVars, stVars, alVars, ntVars >>

\* _process_petitions: "async with LegistarScraper(...)"; an exception here
\* is re-raised into run, which returns False
OpenProcessSession ==
    /\ pc = "process_open"
    /\ \E ok \in BOOLEAN :
         IF ok
         THEN Advance("process_open") /\ UNCHANGED log
         ELSE Returns(FALSE) /\ log' = Logged("process", 0, "raised")
    /\ UNCHANGED << selected, detailIdx, meetings, procIdx, attachFs, gisIdx,
                    all_features, parcel_geojson, saveIdx, store >>
    /\ sessions' = IF pc' = "done" THEN sessions    \* __aenter__ raised
                   ELSE aenter(sessions, "process")
    /\ UNCHANGED << exVars, dlVars, allVars, geoVars, calVars, ppVars, stVars, alVars, ntVars >>

\* _process_petitions: one iteration of the petition loop
ProcessPetition ==
    /\ pc = "process"
    /\ procIdx <= Len(PetitionPositions(meetings, 1))
    /\ LET pos      == PetitionPositions(meetings, 1)[procIdx]
           petition == meetings[pos[1]].petitions[pos[2]]
       IN  IF petition.petition_number = None \/ petition.legislation_url = None
           THEN /\ log' = Logged("process", procIdx, "skipped")
                /\ UNCHANGED << meetings, attachFs >>
           ELSE \E page \in { Raise, Return(LegislationPage(petition.legislation_url[1])) } :
                \E outcomes \in [1..Len(page.value) -> RunDownloadOutcomes] :
                  LET r == ProcessOne(petition, page, outcomes, attachFs)
                  IN  /\ meetings' = [meetings EXCEPT ![pos[1]].petitions[pos[2]] = r.petition]
                      /\ attachFs' = r.fs
                      /\ log' = Logged("process", procIdx,
                                       IF page.raised THEN "page failed"
                                       ELSE IF r.downloaded THEN "downloaded" ELSE "ok")
    /\ procIdx' = procIdx + 1
    /\ UNCHANGED << pc, selected, detailIdx, gisIdx, all_features,
                    parcel_geojson, saveIdx, store, result, exitStatus >>
    /\ UNCHANGED sessions
    /\ UNCHANGED << exVars, dlVars, allVars, geoVars, calVars, ppVars, stVars, alVars, ntVars >>

\* _process_petitions returns
ProcessDone ==
    /\ pc = "process"
    /\ procIdx > Len(PetitionPositions(meetings, 1))
    /\ Advance("process")
    /\ UNCHANGED << selected, detailIdx, meetings, procIdx, attachFs, gisIdx,
                    all_features, parcel_geojson, saveIdx, store, log >>
    /\ sessions' = aexit(sessions, "process")
    /\ UNCHANGED << exVars, dlVars, allVars, geoVars, calVars, ppVars, stVars, alVars, ntVars >>

\* _fetch_parcel_geometry: "async with GISFetcher()"; an exception here is
\* caught and leaves an empty feature collection
OpenGisClient ==
    /\ pc = "geometry_open"
    /\ \E ok \in BOOLEAN :
         IF ok
         THEN /\ pc' = StepAfter("geometry_open")
              /\ UNCHANGED << parcel_geojson, log, result, exitStatus >>
         ELSE /\ parcel_geojson' = Some(<< >>)
              /\ log' = Logged("geometry", 0, "raised")
              /\ Advance("geometry")
    /\ UNCHANGED << selected, detailIdx, meetings, procIdx, attachFs, gisIdx,
                    all_features, saveIdx, store >>
    /\ sessions' = IF pc' = "geometry" THEN aenter(sessions, "gis")
                   ELSE sessions                 \* __aenter__ raised
    /\ UNCHANGED << exVars, dlVars, allVars, geoVars, calVars, ppVars, stVars, alVars, ntVars >>

\* one iteration of "for pin in pins": get_parcel_by_pid and the merge of the
\* petition's fields into the feature
GeoLookup ==
    /\ pc = "geometry"
    /\ gisIdx <= Len(Lookups(meetings, 1))
    /\ \E outcome \in LookupOutcomes :
         LET lookup == Lookups(meetings, 1)[gisIdx]
         IN  /\ log' = Logged("lookup", gisIdx, outcome)
             /\ CASE outcome = "feature" ->
                       /\ all_features' = Append(all_features, lookup)
                       /\ gisIdx' = gisIdx + 1
                       /\ UNCHANGED << pc, parcel_geojson, result, exitStatus >>
                  [] outcome = "none" ->
                       /\ gisIdx' = gisIdx + 1
                       /\ UNCHANGED << pc, all_features, parcel_geojson, result, exitStatus >>
                  [] outcome = "null_properties" ->
                       \* the AttributeError leaves both loops and both calls,
                       \* and is caught in _fetch_parcel_geometry
                       /\ parcel_geojson' = Some(<< >>)
                       /\ Advance("geometry")
                       /\ UNCHANGED << gisIdx, all_features >>
    /\ UNCHANGED << selected, detailIdx, meetings, procIdx, attachFs, saveIdx, store >>
    /\ sessions' = IF pc' # pc THEN aexit(sessions, "gis")   \* the exception leaves the async with
                   ELSE sessions
    /\ UNCHANGED << exVars, dlVars, allVars, geoVars, calVars, ppVars, stVars, alVars, ntVars >>

\* fetch_parcels_for_all_meetings returns; self._parcel_geojson = geojson
GeoDone ==
    /\ pc = "geometry"
    /\ gisIdx > Len(Lookups(meetings, 1))
    /\ parcel_geojson' = Some(all_features)
    /\ Advance("geometry")
    /\ UNCHANGED << selected, detailIdx, meetings, procIdx, attachFs, gisIdx,
                    all_features, saveIdx, store, log >>
    /\ sessions' = aexit(sessions, "gis")
    /\ UNCHANGED << exVars, dlVars, allVars, geoVars, calVars, ppVars, stVars, alVars, ntVars >>

\* _save_data: one of the four writes; an exception is logged and re-raised
\* into run, which returns False
SaveWrite ==
    /\ pc = "save"
    /\ saveIdx <= Len(Artifacts)
    /\ LET a == Artifacts[saveIdx]
       IN  IF a = "parcels" /\ parcel_geojson = None
           THEN \* hasattr(self, '_parcel_geojson') is false: nothing to write
                /\ saveIdx' = saveIdx + 1
                /\ UNCHANGED << pc, store, result, exitStatus, log >>
           ELSE \E outcome \in {"ok", "open_error", "write_error"} :
                  /\ log' = Logged("write", saveIdx, outcome)
                  /\ CASE outcome = "ok" ->
                            /\ store' = [store EXCEPT ![a] = "new"]
                            /\ saveIdx' = saveIdx + 1
                            /\ UNCHANGED << pc, result, exitStatus >>
                       [] outcome = "open_error" ->
                            /\ Returns(FALSE)
                            /\ UNCHANGED << store, saveIdx >>
                       [] outcome = "write_error" ->
                            /\ store' = [store EXCEPT ![a] = "torn"]
                            /\ Returns(FALSE)
                            /\ UNCHANGED saveIdx
    /\ UNCHANGED << selected, detailIdx, meetings, procIdx, attachFs, gisIdx,
                    all_features, parcel_geojson >>
    /\ UNCHANGED sessions
    /\ UNCHANGED << exVars, dlVars, allVars, geoVars, calVars, ppVars, stVars, alVars, ntVars >>

\* _save_data returns; run prints the summary and returns True
SaveDone ==
    /\ pc = "save"
    /\ saveIdx > Len(Artifacts)
    /\ Advance("save")
    /\ UNCHANGED << selected, detailIdx, meetings, procIdx, attachFs, gisIdx,
                    all_features, parcel_geojson, saveIdx, store, log >>
    /\ UNCHANGED sessions
    /\ UNCHANGED << exVars, dlVars, allVars, geoVars, calVars, ppVars, stVars, alVars, ntVars >>

\* the process is interrupted (killed) at some point of the run; during
\* _save_data the write in progress may have truncated or half written its file
Interrupt ==
    /\ pc \notin {"done", "killed"}
    /\ pc' = "killed"
    /\ IF pc = "save" /\ saveIdx <= Len(Artifacts)
          /\ ~(Artifacts[saveIdx] = "parcels" /\ parcel_geojson = None)
       THEN \E left \in InterruptedWrite :
               store' = [store EXCEPT ![Artifacts[saveIdx]] =
                            IF left = "old" THEN store[Artifacts[saveIdx]] ELSE left]
       ELSE UNCHANGED store
    /\ UNCHANGED << selected, detailIdx, meetings, procIdx, attachFs, gisIdx,
                    all_features, parcel_geojson, saveIdx, result, exitStatus, log,
                    sessions >>
    /\ UNCHANGED << exVars, dlVars, allVars, geoVars, calVars, ppVars, stVars, alVars, ntVars >>

Next ==
    \/ Construct
    \/ FetchCalendar
    \/ FetchMeetingDetails
    \/ DetailsDone
    \/ OpenProcessSession
    \/ ProcessPetition
    \/ ProcessDone
    \/ OpenGisClient
    \/ GeoLookup
    \/ GeoDone
    \/ SaveWrite
    \/ SaveDone
    \/ Interrupt

Spec == Init /\ [][Next]_vars


(***************************************************************************)
(* SpecAll: run_all_counties                                               *)
(***************************************************************************)
InitAll ==
    /\ StIdle
    /\ AlIdle
    /\ NtIdle
    /\ PpIdle
    /\ GeoIdle
    /\ CalIdle
    /\ ExIdle
    /\ DlIdle
    /\ RunIdle
    /\ allPc = "loop"
    /\ \E n \in 0..MaxCounties :
         /\ countyEnabled \in [1..n -> BOOLEAN]
         /\ countyOutcome \in [1..n -> RunOutcomes]
    /\ enabled = get_enabled_counties(countyEnabled, 1)
    /\ allIdx = 1
    /\ results = << >>

\* one iteration of "for county in enabled": results[county_id] = success
RunNextCounty ==
    /\ allPc = "loop"
    /\ allIdx <= Len(enabled)
    /\ LET c == enabled[allIdx]
           r == run_county(countyOutcome[c])
       IN  IF r.raised
           THEN allPc' = "raised" /\ UNCHANGED << allIdx, results >>
           ELSE /\ results' = Append(results, [county |-> c, success |-> r.value])
                /\ allIdx' = allIdx + 1
                /\ UNCHANGED allPc
    /\ UNCHANGED << countyEnabled, countyOutcome, enabled >>
    /\ UNCHANGED << exVars, dlVars, runVars, geoVars, calVars, ppVars, stVars, alVars, ntVars >>

\* return results ("return {}" when no county is enabled)
ReturnResults ==
    /\ allPc = "loop"
    /\ allIdx > Len(enabled)
    /\ allPc' = "returned"
    /\ UNCHANGED << countyEnabled, countyOutcome, enabled, allIdx, results >>
    /\ UNCHANGED << exVars, dlVars, runVars, geoVars, calVars, ppVars, stVars, alVars, ntVars >>

NextAll == RunNextCounty \/ ReturnResults

SpecAll == InitAll /\ [][NextAll]_vars

(***************************************************************************)
(* SpecGeometry: fetch_parcels_for_all_meetings                            *)
(***************************************************************************)
InitGeometry ==
    /\ StIdle
    /\ AlIdle
    /\ NtIdle
    /\ PpIdle
    /\ CalIdle
    /\ ExIdle
    /\ DlIdle
    /\ RunIdle
    /\ AllIdle
    /\ geoPc = "meeting"
    /\ geoMeetings \in SeqsUpTo(MeetingUniverse, MaxGeoMeetings)
    /\ geoM = 1
    /\ geoPet = 1
    /\ geoPin = 1
    /\ geoLocals = LookupLocals
    /\ geoAll = << >>
    /\ geoTrace = << >>
    /\ geoResult = None

\* "for meeting in meetings": the call of fetch_parcels_for_petitions up to
\* the start of its loop, or to its return when no petition has pins
GeoEnterMeeting ==
    /\ geoPc = "meeting"
    /\ geoM <= Len(geoMeetings)
    /\ IF petitions_with_pins(geoMeetings[geoM].petitions) = << >>
       THEN /\ geoAll' = ExtendFeatures(geoAll, << >>)     \* _empty_geojson()
            /\ geoM' = geoM + 1
            /\ UNCHANGED << geoPc, geoPet, geoPin, geoLocals >>
       ELSE /\ geoPc' = "pin"
            /\ geoPet' = 1
            /\ geoPin' = 1
            /\ geoLocals' = LookupLocals
            /\ UNCHANGED << geoAll, geoM >>
    /\ UNCHANGED << geoMeetings, geoTrace, geoResult >>
    /\ UNCHANGED << exVars, dlVars, runVars, allVars, calVars, ppVars, stVars, alVars, ntVars >>

\* one iteration of "for pin in pins", and the step to the next pin, the
\* next petition or the end of the loops
GeoLookupPin ==
    /\ geoPc = "pin"
    /\ LET meeting  == geoMeetings[geoM]
           with     == petitions_with_pins(meeting.petitions)
           petition == with[geoPet]
           pin      == petition.pins[1][geoPin]
       IN  \E response \in GisResponses(pin) :
             LET after == LookupBody(geoLocals, petition, meeting.meeting_date,
                                     meeting.meeting_type, response)
             IN  /\ geoLocals' = after
                 /\ geoTrace' = Append(geoTrace,
                        [meeting |-> geoM, petition |-> petition.file_number,
                         pin |-> pin, response |-> response])
                 /\ IF after.raised
                    THEN geoPc' = "raised" /\ UNCHANGED << geoPet, geoPin >>
                    ELSE IF geoPin < Len(petition.pins[1])
                    THEN geoPin' = geoPin + 1 /\ UNCHANGED << geoPc, geoPet >>
                    ELSE IF geoPet < Len(with)
                    THEN geoPet' = geoPet + 1 /\ geoPin' = 1 /\ UNCHANGED geoPc
                    ELSE geoPc' = "return" /\ UNCHANGED << geoPet, geoPin >>
    /\ UNCHANGED << geoMeetings, geoM, geoAll, geoResult >>
    /\ UNCHANGED << exVars, dlVars, runVars, allVars, calVars, ppVars, stVars, alVars, ntVars >>

\* fetch_parcels_for_petitions returns its feature collection;
\* all_features.extend(geojson['features'])
GeoReturnMeeting ==
    /\ geoPc = "return"
    /\ geoAll' = ExtendFeatures(geoAll, geoLocals.all_features)
    /\ geoM' = geoM + 1
    /\ geoPc' = "meeting"
    /\ UNCHANGED << geoMeetings, geoPet, geoPin, geoLocals, geoTrace, geoResult >>
    /\ UNCHANGED << exVars, dlVars, runVars, allVars, calVars, ppVars, stVars, alVars, ntVars >>

\* fetch_parcels_for_all_meetings returns
GeoReturnAll ==
    /\ geoPc = "meeting"
    /\ geoM > Len(geoMeetings)
    /\ geoPc' = "done"
    /\ geoResult' = Some(geoAll)
    /\ UNCHANGED << geoMeetings, geoM, geoPet, geoPin, geoLocals, geoAll, geoTrace >>
    /\ UNCHANGED << exVars, dlVars, runVars, allVars, calVars, ppVars, stVars, alVars, ntVars >>

NextGeometry == GeoEnterMeeting \/ GeoLookupPin \/ GeoReturnMeeting \/ GeoReturnAll

SpecGeometry == InitGeometry /\ [][NextGeometry]_vars

(***************************************************************************)
(* SpecCalendar: fetch_calendar                                            *)
(***************************************************************************)
InitCalendar ==
    /\ StIdle
    /\ AlIdle
    /\ NtIdle
    /\ PpIdle
    /\ ExIdle
    /\ DlIdle
    /\ RunIdle
    /\ AllIdle
    /\ GeoIdle
    /\ calPc = "fetch"
    /\ calRows \in SeqsUpTo(CalendarRows, MaxRows)
    /\ calStart \in DateBounds
    /\ calEnd \in DateBounds
    /\ calIdx = 1
    /\ calMeetings = << >>
    /\ calParsed = << >>
    /\ calResult = None

\* session.get(calendar_url), raise_for_status, the rows of the table
CalFetchPage ==
    /\ calPc = "fetch"
    /\ \E ok \in BOOLEAN :
         IF ok THEN calPc' = "rows" /\ UNCHANGED calResult
         ELSE calPc' = "done" /\ calResult' = Some(Raise)
    /\ UNCHANGED << calRows, calStart, calEnd, calIdx, calMeetings, calParsed >>
    /\ UNCHANGED << exVars, dlVars, runVars, allVars, geoVars, ppVars, stVars, alVars, ntVars >>

\* one iteration of "for row in meeting_rows"
CalParseRow ==
    /\ calPc = "rows"
    /\ calIdx <= Len(calRows)
    /\ LET r == parse_calendar_row(calRows[calIdx])
       IN  IF r.raised
           THEN /\ calPc' = "done"
                /\ calResult' = Some(Raise)
                /\ UNCHANGED << calIdx, calMeetings, calParsed >>
           ELSE /\ calMeetings' = IF r.value # None THEN Append(calMeetings, r.value[1])
                                  ELSE calMeetings
                /\ calParsed' = Append(calParsed, [row |-> calIdx, meeting |-> r.value])
                /\ calIdx' = calIdx + 1
                /\ UNCHANGED << calPc, calResult >>
    /\ UNCHANGED << calRows, calStart, calEnd >>
    /\ UNCHANGED << exVars, dlVars, runVars, allVars, geoVars, ppVars, stVars, alVars, ntVars >>

\* "if start_date or end_date: meetings = self._filter_by_date(...)";
\* return meetings
CalReturn ==
    /\ calPc = "rows"
    /\ calIdx > Len(calRows)
    /\ calPc' = "done"
    /\ calResult' = Some(Return(IF calStart # None \/ calEnd # None
                                THEN filter_by_date(calMeetings, calStart, calEnd)
                                ELSE calMeetings))
    /\ UNCHANGED << calRows, calStart, calEnd, calIdx, calMeetings, calParsed >>
    /\ UNCHANGED << exVars, dlVars, runVars, allVars, geoVars, ppVars, stVars, alVars, ntVars >>

NextCalendar == CalFetchPage \/ CalParseRow \/ CalReturn

SpecCalendar == InitCalendar /\ [][NextCalendar]_vars

(***************************************************************************)
(* SpecParse: parse_pdf                                                    *)
(***************************************************************************)
InitParse ==
    /\ StIdle
    /\ AlIdle
    /\ NtIdle
    /\ ExIdle
    /\ DlIdle
    /\ RunIdle
    /\ AllIdle
    /\ GeoIdle
    /\ CalIdle
    /\ ppPc = "start"
    /\ ppExists \in BOOLEAN
    /\ ppAvailable \in [pdfplumber : BOOLEAN, pypdf2 : BOOLEAN]
    /\ ppOutcome \in [pdfplumber : BackendOutcomes, pypdf2 : BackendOutcomes]
    /\ ppCalls = << >>
    /\ ppParsed = [text |-> EmptyText, page_count |-> 0]
    /\ ppResult = None

\* "if not pdf_path_obj.exists(): raise FileNotFoundError"
ParseCheckPath ==
    /\ ppPc = "start"
    /\ IF ppExists
       THEN ppPc' = "first" /\ UNCHANGED ppResult
       ELSE ppPc' = "done" /\ ppResult' = Some(RaiseError("FileNotFoundError"))
    /\ UNCHANGED << ppExists, ppAvailable, ppOutcome, ppCalls, ppParsed >>
    /\ UNCHANGED << exVars, dlVars, runVars, allVars, geoVars, calVars, stVars, alVars, ntVars >>

\* the first backend: pdfplumber if available, else PyPDF2, else
\* raise Exception("No PDF parsing library available")
ParseFirstBackend ==
    /\ ppPc = "first"
    /\ IF ppAvailable.pdfplumber
       THEN /\ ppParsed' = parse_with("pdfplumber", ppOutcome.pdfplumber)
            /\ ppCalls' = Append(ppCalls, "pdfplumber")
            /\ ppPc' = "gate"
            /\ UNCHANGED ppResult
       ELSE IF ppAvailable.pypdf2
       THEN /\ ppParsed' = parse_with("pypdf2", ppOutcome.pypdf2)
            /\ ppCalls' = Append(ppCalls, "pypdf2")
            /\ ppPc' = "gate"
            /\ UNCHANGED ppResult
       ELSE /\ ppPc' = "done"
            /\ ppResult' = Some(RaiseError("Exception"))
            /\ UNCHANGED << ppParsed, ppCalls >>
    /\ UNCHANGED << ppExists, ppAvailable, ppOutcome >>
    /\ UNCHANGED << exVars, dlVars, runVars, allVars, geoVars, calVars, stVars, alVars, ntVars >>

\* "if len(text_content) < 100 and ...: text_content, page_count =
\* _parse_with_pypdf2(pdf_path)"
ParseFallback ==
    /\ ppPc = "gate"
    /\ FallbackWanted(ppParsed.text, ppAvailable)
    /\ ppParsed' = parse_with("pypdf2", ppOutcome.pypdf2)
    /\ ppCalls' = Append(ppCalls, "pypdf2")
    /\ ppPc' = "return"
    /\ UNCHANGED << ppExists, ppAvailable, ppOutcome, ppResult >>
    /\ UNCHANGED << exVars, dlVars, runVars, allVars, geoVars, calVars, stVars, alVars, ntVars >>

\* _extract_metadata, which catches its exceptions, and "return result"
ParseReturn ==
    /\ \/ ppPc = "return"
       \/ ppPc = "gate" /\ ~FallbackWanted(ppParsed.text, ppAvailable)
    /\ ppPc' = "done"
    /\ ppResult' = Some(Return(ppParsed))
    /\ UNCHANGED << ppExists, ppAvailable, ppOutcome, ppCalls, ppParsed >>
    /\ UNCHANGED << exVars, dlVars, runVars, allVars, geoVars, calVars, stVars, alVars, ntVars >>

NextParse == ParseCheckPath \/ ParseFirstBackend \/ ParseFallback \/ ParseReturn

SpecParse == InitParse /\ [][NextParse]_vars

(***************************************************************************)
(* SpecStorage: _save_data of one run over a list of meetings, then        *)
(* load_petitions and main with a county and --stats over the same data    *)
(* directory.  A data directory no run has written to starts at "cli".     *)
(***************************************************************************)
InitStorage ==
    /\ ExIdle
    /\ DlIdle
    /\ RunIdle
    /\ AllIdle
    /\ GeoIdle
    /\ CalIdle
    /\ PpIdle
    /\ AlIdle
    /\ NtIdle
    /\ stPc \in {"save_meetings", "cli"}
    /\ stMeetings \in SeqsUpTo(StoredMeetings, MaxStoredMeetings)
    /\ stHasParcels \in BOOLEAN
    /\ stCounty \in COUNTIES \cup {"wake_nc"}
    /\ stFiles = NoFiles
    /\ stLoaded = None
    /\ stPrinted = None
    /\ stExit = None
    /\ stTrace = << >>

\* self.storage.save_meetings(meetings)
SaveMeetings ==
    /\ stPc = "save_meetings"
    /\ stFiles' = [stFiles EXCEPT !.meetings = Some(Len(stMeetings))]
    /\ stTrace' = Append(stTrace, "write meetings.json")
    /\ stPc' = "save_petitions"
    /\ UNCHANGED << stMeetings, stHasParcels, stCounty, stLoaded, stPrinted, stExit >>
    /\ UNCHANGED << exVars, dlVars, runVars, allVars, geoVars, calVars, ppVars, alVars, ntVars >>

\* self.storage.save_petitions(meetings)
SavePetitions ==
    /\ stPc = "save_petitions"
    /\ stFiles' = [stFiles EXCEPT !.petitions = Some(petitions_file(stMeetings))]
    /\ stTrace' = Append(stTrace, "write petitions.json")
    /\ stPc' = "save_parcels"
    /\ UNCHANGED << stMeetings, stHasParcels, stCounty, stLoaded, stPrinted, stExit >>
    /\ UNCHANGED << exVars, dlVars, runVars, allVars, geoVars, calVars, ppVars, alVars, ntVars >>

\* "if hasattr(self, '_parcel_geojson'): self.storage.save_parcels_geojson(..)"
SaveParcels ==
    /\ stPc = "save_parcels"
    /\ IF stHasParcels
       THEN /\ stFiles' = [stFiles EXCEPT !.parcels = Some("FeatureCollection")]
            /\ stTrace' = Append(stTrace, "write parcels.geojson")
       ELSE UNCHANGED << stFiles, stTrace >>
    /\ stPc' = "save_stats"
    /\ UNCHANGED << stMeetings, stHasParcels, stCounty, stLoaded, stPrinted, stExit >>
    /\ UNCHANGED << exVars, dlVars, runVars, allVars, geoVars, calVars, ppVars, alVars, ntVars >>

\* self.storage.save_stats(meetings)
SaveStats ==
    /\ stPc = "save_stats"
    /\ stFiles' = [stFiles EXCEPT !.stats = Some(stats_file(stMeetings))]
    /\ stTrace' = Append(stTrace, "write stats.json")
    /\ stPc' = "saved"
    /\ UNCHANGED << stMeetings, stHasParcels, stCounty, stLoaded, stPrinted, stExit >>
    /\ UNCHANGED << exVars, dlVars, runVars, allVars, geoVars, calVars, ppVars, alVars, ntVars >>

\* storage.load_petitions() by a later reader of the data directory
LoadPetitions ==
    /\ stPc = "saved"
    /\ stLoaded = None
    /\ stLoaded' = Some(load_petitions(stFiles))
    /\ stTrace' = Append(stTrace, "read petitions.json")
    /\ UNCHANGED << stPc, stMeetings, stHasParcels, stCounty, stFiles, stPrinted, stExit >>
    /\ UNCHANGED << exVars, dlVars, runVars, allVars, geoVars, calVars, ppVars, alVars, ntVars >>

\* main with --stats is started
StatsStart ==
    /\ stPc = "saved"
    /\ stPc' = "cli"
    /\ stTrace' = Append(stTrace, "main --stats")
    /\ UNCHANGED << stMeetings, stHasParcels, stCounty, stFiles, stLoaded, stPrinted, stExit >>
    /\ UNCHANGED << exVars, dlVars, runVars, allVars, geoVars, calVars, ppVars, alVars, ntVars >>

\* "orchestrator = TownhallOrchestrator(args.county)": get_county raises
\* ValueError for an unknown county, which "except Exception" turns into
\* sys.exit(1); Storage.__init__ creates the data directory
StatsConstruct ==
    /\ stPc = "cli"
    /\ IF stCounty \in COUNTIES
       THEN /\ stPc' = "verify"
            /\ stTrace' = Append(stTrace, "mkdir")
            /\ UNCHANGED stExit
       ELSE /\ stPc' = "exited"
            /\ stExit' = Some(1)
            /\ UNCHANGED stTrace
    /\ UNCHANGED << stMeetings, stHasParcels, stCounty, stFiles, stLoaded, stPrinted >>
    /\ UNCHANGED << exVars, dlVars, runVars, allVars, geoVars, calVars, ppVars, alVars, ntVars >>

\* "orchestrator.storage.load_stats(); orchestrator._print_summary([]);
\* return": a method Storage does not define raises AttributeError, which
\* "except Exception" turns into sys.exit(1)
StatsSummary ==
    /\ stPc = "verify"
    /\ IF "load_stats" \in StorageMethods
       THEN /\ stPrinted' = Some(print_summary(stFiles))
            /\ stExit' = Some(0)
            /\ stTrace' = stTrace \o << "read stats.json", "read petitions.json" >>
       ELSE /\ stExit' = Some(1)
            /\ UNCHANGED << stPrinted, stTrace >>
    /\ stPc' = "exited"
    /\ UNCHANGED << stMeetings, stHasParcels, stCounty, stFiles, stLoaded >>
    /\ UNCHANGED << exVars, dlVars, runVars, allVars, geoVars, calVars, ppVars, alVars, ntVars >>

NextStorage ==
    \/ SaveMeetings
    \/ SavePetitions
    \/ SaveParcels
    \/ SaveStats
    \/ LoadPetitions
    \/ StatsStart
    \/ StatsConstruct
    \/ StatsSummary

SpecStorage == InitStorage /\ [][NextStorage]_vars

(***************************************************************************)
(* SpecAgent: one call of call_alert_checker_agent                         *)
(***************************************************************************)
InitAgent ==
    /\ ExIdle
    /\ DlIdle
    /\ RunIdle
    /\ AllIdle
    /\ GeoIdle
    /\ CalIdle
    /\ PpIdle
    /\ StIdle
    /\ NtIdle
    /\ alPc = "loop"
    /\ alOutcomes \in [1..max_retries -> AgentOutcomes]
    /\ attempt = 0
    /\ alTrace = << >>
    /\ alResult = None

\* one iteration of the loop: requests.post, raise_for_status, response.json
AgentAttempt ==
    /\ alPc = "loop"
    /\ attempt < max_retries
    /\ LET outcome == alOutcomes[attempt + 1]
           does    == after_attempt(attempt, outcome)
       IN  /\ alTrace' = alTrace \o << [op |-> "post", attempt |-> attempt] >>
                         \o (IF does = "retry"
                             THEN << [op |-> "sleep", attempt |-> attempt] >> ELSE << >>)
           /\ alPc' = IF does = "retry" THEN "loop" ELSE "done"
           /\ attempt' = IF does = "retry" THEN attempt + 1 ELSE attempt
           /\ alResult' = CASE does = "return" -> Some(Return("data"))
                            [] does = "raise"  -> Some(RaiseError(ErrorOf(outcome)))
                            [] does = "retry"  -> None
    /\ UNCHANGED alOutcomes
    /\ UNCHANGED << exVars, dlVars, runVars, allVars, geoVars, calVars, ppVars, stVars, ntVars >>

NextAgent == AgentAttempt

SpecAgent == InitAgent /\ [][NextAgent]_vars

(***************************************************************************)
(* SpecNotify: send_notifications over the notifications of the agent, and *)
(* the exit of the cron job's main                                         *)
(***************************************************************************)
InitNotify ==
    /\ ExIdle
    /\ DlIdle
    /\ RunIdle
    /\ AllIdle
    /\ GeoIdle
    /\ CalIdle
    /\ PpIdle
    /\ StIdle
    /\ AlIdle
    /\ ntPc = "loop"
    /\ notifications \in SeqsUpTo(NotificationUniverse, MaxNotifications)
    /\ ntIdx = 1
    /\ success_count = 0
    /\ failure_count = 0
    /\ ntSends = << >>
    /\ ntExit = None

\* one iteration of "for notification in notifications"
NotifyOne ==
    /\ ntPc = "loop"
    /\ ntIdx <= Len(notifications)
    /\ LET notification == notifications[ntIdx]
           does         == process_notification(notification)
           sent         == notification.is_dict /\ notification.email # None
                           /\ notification.petitions \in {"list", "list_without_number"}
       IN  /\ success_count' = success_count + (IF does = "success" THEN 1 ELSE 0)
           /\ failure_count' = failure_count + (IF does = "failure" THEN 1 ELSE 0)
           /\ ntSends' = IF sent THEN Append(ntSends, ntIdx) ELSE ntSends
           /\ ntPc' = IF does = "raised" THEN "raised" ELSE "loop"
           /\ ntIdx' = IF does = "raised" THEN ntIdx ELSE ntIdx + 1
    /\ UNCHANGED << notifications, ntExit >>
    /\ UNCHANGED << exVars, dlVars, runVars, allVars, geoVars, calVars, ppVars, stVars, alVars >>

\* "return success_count, failure_count"
NotifyReturn ==
    /\ ntPc = "loop"
    /\ ntIdx > Len(notifications)
    /\ ntPc' = "returned"
    /\ UNCHANGED << notifications, ntIdx, success_count, failure_count, ntSends, ntExit >>
    /\ UNCHANGED << exVars, dlVars, runVars, allVars, geoVars, calVars, ppVars, stVars, alVars >>

\* main: "if failure_count > 0: sys.exit(1)"; an exception of
\* send_notifications reaches "except Exception: ... sys.exit(1)"
CronExit ==
    /\ ntPc \in {"returned", "raised"}
    /\ ntExit' = Some(IF ntPc = "raised" \/ failure_count > 0 THEN 1 ELSE 0)
    /\ ntPc' = "exited"
    /\ UNCHANGED << notifications, ntIdx, success_count, failure_count, ntSends >>
    /\ UNCHANGED << exVars, dlVars, runVars, allVars, geoVars, calVars, ppVars, stVars, alVars >>

NextNotify == NotifyOne \/ NotifyReturn \/ CronExit

SpecNotify == InitNotify /\ [][NextNotify]_vars

(***************************************************************************)
(* Properties of the identifier extractor (SpecExtract)                    *)
(***************************************************************************)
\* strictly ascending in Python's string order: sorted and free of duplicates
StrictlyAscending(q) == \A i \in 1..(Len(q) - 1) : StrLess(q[i], q[i + 1])

\* the identifiers of a document that parses; none for one that does not
ParsedPins(doc) ==
    IF doc.exists /\ doc.parse = "ok" THEN PinsOfText(DEFAULT_PATTERNS, doc.text) ELSE {}

\* C7: extraction over a directory or a batch never raises; a document whose
\* parse fails contributes no identifier, every document of the list is
\* processed, and the result is the sorted union of the identifiers of the
\* documents that parse.
C7_ExtractionContainsParseFailures ==
    exResult # None =>
        /\ ~exResult[1].raised
        /\ exIdx = Len(exDocs) + 1
        /\ SeqToSet(exResult[1].value) =
               UNION { ParsedPins(exDocs[i]) : i \in 1..Len(exDocs) }
        /\ StrictlyAscending(exResult[1].value)

\* a corrupt document first, documents with identifiers after it, a result
C7_Witness ==
    /\ exResult # None
    /\ Len(exDocs) >= 3
    /\ exDocs[1].exists /\ exDocs[1].parse = "raises"
    /\ ParsedPins(exDocs[2]) # {}
    /\ ParsedPins(exDocs[3]) # {}
    /\ Len(exResult[1].value) = 2

(***************************************************************************)
(* Properties of the attachment fetcher (SpecDownload)                     *)
(***************************************************************************)
\* the attempts that succeeded, in the order they were made
Succeeded == SelectSeq(dlOutcomes, LAMBDA o : o.outcome = "ok")

\* C9: whatever the outcomes, every attachment of the page is attempted, in
\* discovery order, and the returned list is exactly the paths of the
\* attachments whose download and save succeeded, in that order.
C9_ReturnsExactlyTheSavedPaths ==
    dlReturned # None =>
        /\ [k \in 1..Len(dlOutcomes) |-> dlOutcomes[k].i] = [k \in 1..Len(attachments) |-> k]
        /\ dlReturned[1] =
               [k \in 1..Len(Succeeded) |->
                   FilePath(dlPetition, attachments[Succeeded[k].i].name)]

\* a failed download, a failed save and a later success, then the return
C9_Witness ==
    /\ dlReturned # None
    /\ Len(dlOutcomes) >= 3
    /\ dlOutcomes[1].outcome = "http_error"
    /\ dlOutcomes[2].outcome = "write_error"
    /\ dlOutcomes[3].outcome = "ok"
    /\ Len(dlReturned[1]) = 1

\* C10: within one call every discovered attachment is requested at most
\* once, also after a failure, and a failed attachment puts no entry in the
\* returned list: the list has one entry per successful attempt, and the path
\* of a failed attachment is in it only as the path of another attachment
\* that succeeded.
C10_AtMostOneRequestPerAttachment ==
    /\ \A i \in 1..Len(attachments) : Requests(dlState.trace, i) <= 1
    /\ dlReturned # None =>
           /\ Len(dlReturned[1]) = Len(Succeeded)
           /\ \A k \in 1..Len(dlOutcomes) :
                  (/\ dlOutcomes[k].outcome # "ok"
                   /\ FilePath(dlPetition, attachments[dlOutcomes[k].i].name)
                          \in SeqToSet(dlReturned[1]))
                  => \E l \in 1..Len(dlOutcomes) :
                         /\ dlOutcomes[l].outcome = "ok"
                         /\ dlOutcomes[l].i # dlOutcomes[k].i
                         /\ safe_name(attachments[dlOutcomes[l].i].name)
                                = safe_name(attachments[dlOutcomes[k].i].name)

\* a call that returned after a failed request for its first attachment
C10_Witness ==
    /\ dlReturned # None
    /\ Len(attachments) >= 2
    /\ Len(dlOutcomes) >= 1
    /\ dlOutcomes[1].outcome = "http_error"
    /\ Requests(dlState.trace, 1) = 1

(***************************************************************************)
(* Properties of run_all_counties (SpecAll)                                *)
(***************************************************************************)
\* the dict run_all_counties returns for a list of counties: the loop as a
\* whole, None when an exception leaves it
RECURSIVE RunAll(_, _, _)
RunAll(counties, outcomes, acc) ==
    IF counties = << >> THEN Some(acc)
    ELSE LET r == run_county(outcomes[Head(counties)])
         IN  IF r.raised THEN None
             ELSE RunAll(Tail(counties), outcomes,
                         Append(acc, [county |-> Head(counties), success |-> r.value]))

\* a county whose run fails: its constructor raises or its run returns False
Fails(c) == countyOutcome[c] # "returns True"

Entries(step) == { k \in 1..Len(log) : log[k].step = step }

Happened(step, what) == \E k \in Entries(step) : log[k].what = what

CalendarFetched == Happened("calendar", "ok")

\* the writes of _save_data that raised
FailedWrites == { k \in Entries("write") : log[k].what # "ok" }

\* the entries of log after which run cannot go on
Unrecoverable ==
    { k \in 1..Len(log) :
        \/ log[k].step \in {"start", "calendar", "process"} /\ log[k].what = "raised"
        \/ log[k].step = "write" /\ log[k].what # "ok" }

\* the position of each step in the order of run
StepRank(step) ==
    CASE step = "start" -> 1
      [] step = "calendar" -> 2
      [] step = "details" -> 3
      [] step = "process" -> 4
      [] step \in {"geometry", "lookup"} -> 5
      [] step = "write" -> 6

\* C1: when the write of one of the four artifacts fails, the other three
\* artifacts are written all the same and the run returns True.
C1_FailedWriteLeavesOthersWritten ==
    (pc = "done" /\ FailedWrites # {}) =>
        /\ result = Some(TRUE)
        /\ \A k \in FailedWrites :
             \A i \in 1..Len(Artifacts) :
                i # log[k].item => store[Artifacts[i]] = "new"

\* C2: a run whose calendar holds no meeting to process ends without
\* processing petitions, looking up geometry or writing artifacts, and is
\* not reported as failed: run does not return False and the process does
\* not exit with status 1.
C2_NoMeetingsIsNotAFailure ==
    (pc = "done" /\ CalendarFetched /\ selected = << >>) =>
        /\ Entries("process") = {} /\ Entries("lookup") = {} /\ Entries("write") = {}
        /\ \A a \in SeqToSet(Artifacts) : store[a] = "old"
        /\ result # Some(FALSE)
        /\ exitStatus # Some(1)

\* C3: once the calendar is fetched and a meeting is selected, a run in which
\* only detail fetches, petitions and geometry lookups fail ends with the
\* four artifacts written and returns True.
C3_SelectedMeetingsAlwaysSaved ==
    (/\ pc = "done"
     /\ CalendarFetched
     /\ Len(selected) >= 1
     /\ ~Happened("process", "raised")
     /\ FailedWrites = {}) =>
        /\ result = Some(TRUE)
        /\ \A a \in SeqToSet(Artifacts) : store[a] = "new"

\* C4: the steps of a run happen in the order calendar, details, petition
\* processing, geometry, save; a geometry lookup is issued only when every
\* petition of every meeting has been processed; an artifact is written only
\* when geometry resolution has finished; an unrecoverable error is the last
\* thing that happens in the run, which then returns False; a run that has
\* returned takes no further step.
C4_StepsInOrder ==
    /\ \A k, l \in 1..Len(log) :
          k < l => StepRank(log[k].step) <= StepRank(log[l].step)
    /\ Entries("lookup") # {} =>
          /\ detailIdx > Len(selected)
          /\ procIdx > Len(PetitionPositions(meetings, 1))
    /\ (Entries("write") # {} \/ \E a \in SeqToSet(Artifacts) : store[a] # "old") =>
          /\ parcel_geojson # None
          /\ procIdx > Len(PetitionPositions(meetings, 1))
    /\ \A k \in Unrecoverable :
          /\ k = Len(log)
          /\ pc = "done"
          /\ result = Some(FALSE)
    /\ pc = "done" => ~ENABLED Next

\* a complete run: petitions processed, lookups issued, four artifacts written
C4_Witness ==
    /\ pc = "done"
    /\ result = Some(TRUE)
    /\ Happened("process", "ok")
    /\ Happened("lookup", "feature")
    /\ \A a \in SeqToSet(Artifacts) : store[a] = "new"

\* a run that is stopped by a failing petition session: nothing after it
C4_WitnessFailed ==
    /\ pc = "done"
    /\ result = Some(FALSE)
    /\ Happened("process", "raised")
    /\ \A a \in SeqToSet(Artifacts) : store[a] = "old"

\* the lookups of the log that returned a feature, in order
RECURSIVE FeaturesLogged(_)
FeaturesLogged(k) ==
    IF k > Len(log) THEN << >>
    ELSE (IF log[k].step = "lookup" /\ log[k].what = "feature"
          THEN << Lookups(meetings, 1)[log[k].item] >> ELSE << >>)
         \o FeaturesLogged(k + 1)

\* the selected meetings whose detail fetch did not raise, in order
RECURSIVE DetailedLogged(_)
DetailedLogged(k) ==
    IF k > Len(log) THEN << >>
    ELSE (IF log[k].step = "details" /\ log[k].what = "ok"
          THEN << log[k].item >> ELSE << >>)
         \o DetailedLogged(k + 1)

\* C5: an exception in one item of a loop costs that item only.  When the
\* detail loop has ended, a meeting is kept for every detail fetch that did
\* not raise, and every selected meeting was fetched; when the petition loop
\* has ended, every petition was handled; when geometry resolution has ended
\* with its client open, every identifier was looked up and every feature a
\* lookup returned is in the feature collection.
C5_ItemFailuresAreContained ==
    /\ (pc \notin {"details", "killed"} /\ CalendarFetched) =>
          /\ Cardinality(Entries("details") \ { k \in Entries("details") : log[k].what = "no meetings" })
                = Len(selected)
          /\ [m \in 1..Len(meetings) |-> meetings[m].id] = DetailedLogged(1)
    /\ (pc \in {"geometry_open", "geometry", "save"} \/ (pc = "done" /\ parcel_geojson # None)) =>
          Cardinality(Entries("process")) = Len(PetitionPositions(meetings, 1))
    /\ (parcel_geojson # None /\ ~Happened("geometry", "raised")) =>
          /\ Cardinality(Entries("lookup")) = Len(Lookups(meetings, 1))
          /\ parcel_geojson = Some(FeaturesLogged(1))

\* the canonical form of an identifier: eight digits, no hyphen
Canonical(pin) == Len(pin) = 8 /\ \A i \in 1..Len(pin) : pin[i] \in Digits

\* C6: the pins of every petition are absent or a non-empty list of
\* canonical, hyphen-free identifiers in strictly ascending order, so with
\* no identifier twice.
C6_PinsSortedDistinctCanonical ==
    \A m \in 1..Len(meetings) : \A p \in 1..Len(meetings[m].petitions) :
        LET pins == meetings[m].petitions[p].pins
        IN  pins # None =>
              /\ Len(pins[1]) >= 1
              /\ StrictlyAscending(pins[1])
              /\ \A i \in 1..Len(pins[1]) : Canonical(pins[1][i])

\* a petition whose directory holds two documents: one names a parcel in
\* dashed and undashed form and under two patterns, the other names that
\* parcel again and a second one; the petition has each parcel once
C6_Witness ==
    /\ StaleFile("2025-103") \in attachFs
    /\ \E f \in attachFs : f.doc = DocDashedAndPlain
    /\ \E m \in 1..Len(meetings) : \E p \in 1..Len(meetings[m].petitions) :
          meetings[m].petitions[p].pins = Some(<< Pin02217101, Pin12305310 >>)

(***************************************************************************)
(* Properties of the attachment fetcher: throttling (SpecDownload)         *)
(***************************************************************************)
\* C11: between two consecutive download requests of one fetch the delay
\* between downloads elapses, whether the earlier download succeeded or
\* failed: no request follows a request without a sleep in between.
C11_DelayBetweenConsecutiveDownloads ==
    \A k \in 1..(Len(dlState.trace) - 1) :
        dlState.trace[k].op = "get" => dlState.trace[k + 1].op # "get"

(***************************************************************************)
(* Properties of geometry resolution (SpecGeometry)                        *)
(***************************************************************************)
\* the lookups fetch_parcels_for_petitions makes for one meeting, in order
RECURSIVE LookupsOfPetitions(_, _)
LookupsOfPetitions(m, with) ==
    IF with = << >> THEN << >>
    ELSE [k \in 1..Len(Head(with).pins[1]) |->
             [meeting |-> m, petition |-> Head(with).file_number, pin |-> Head(with).pins[1][k]]]
         \o LookupsOfPetitions(m, Tail(with))

\* the lookups of all meetings from meeting m on, in order
RECURSIVE ExpectedLookups(_, _)
ExpectedLookups(ms, m) ==
    IF m > Len(ms) THEN << >>
    ELSE LookupsOfPetitions(m, petitions_with_pins(ms[m].petitions)) \o ExpectedLookups(ms, m + 1)

LookupKey(e) == [meeting |-> e.meeting, petition |-> e.petition, pin |-> e.pin]

\* the lookups issued that returned a feature the merge accepted
Matched == SelectSeq(geoTrace, LAMBDA e : e.response.kind = "feature" /\ e.response.properties # None)

\* the features collected so far: those of the meetings returned and those of
\* the call in progress
Collected ==
    geoAll \o (IF geoPc \in {"pin", "return", "raised"} THEN geoLocals.all_features ELSE << >>)

\* C12: a lookup that finds nothing or whose request fails costs that
\* identifier only: the lookups issued are always the first lookups of the
\* processing order, a lookup without a feature never ends the resolution,
\* the features collected are those of the matched lookups, and a resolution
\* that returns has looked up every identifier of every petition and meeting.
C12_FailedLookupExcludesOnlyItself ==
    LET expected == ExpectedLookups(geoMeetings, 1)
    IN  /\ Len(geoTrace) <= Len(expected)
        /\ \A k \in 1..Len(geoTrace) : LookupKey(geoTrace[k]) = expected[k]
        /\ geoPc = "raised" => geoTrace[Len(geoTrace)].response \notin NoFeature
        /\ (\A k \in 1..Len(geoTrace) : geoTrace[k].response \in NoFeature \/ geoTrace[k].response.properties # None)
              => geoPc # "raised"
        /\ Len(Collected) = Len(Matched)
        /\ \A i \in 1..Len(Matched) : Collected[i].properties.PID = Matched[i].pin
        /\ geoPc = "done" => Len(geoTrace) = Len(expected) /\ geoResult = Some(Collected)

\* a feature, then a failed request, a missing parcel and an unparseable
\* response in some order, then a feature at a later meeting: both features
\* are returned
C12_Witness ==
    /\ geoPc = "done"
    /\ Len(geoTrace) >= 4
    /\ geoTrace[1].response.kind = "feature"
    /\ geoTrace[2].response.kind = "http_error"
    /\ geoTrace[3].response.kind \in {"no_match", "bad_json"}
    /\ geoTrace[4].response.kind = "feature"
    /\ geoTrace[4].meeting > geoTrace[1].meeting
    /\ Len(geoResult[1]) = 2

\* the lookups issued for the meeting whose call is in progress
LookupsOfCall == SelectSeq(geoTrace, LAMBDA e : e.meeting = geoM)

\* C13: while fetch_parcels_for_petitions runs, after every lookup,
\* total_parcels is the number of lookups the call has issued, total_found is
\* the number of features it has collected and total_found <= total_parcels;
\* a lookup without a match adds no feature and counts as attempted only; the
\* resolution returns the features of the matched lookups whatever the
\* counters are.
C13_CountersFollowLookups ==
    /\ geoPc \in {"pin", "return", "raised"} =>
          /\ geoLocals.total_parcels = Len(LookupsOfCall)
          /\ geoLocals.total_found = Len(geoLocals.all_features)
          /\ geoLocals.total_found =
                Len(SelectSeq(LookupsOfCall, LAMBDA e : e.response.kind = "feature"
                                                        /\ e.response.properties # None))
          /\ geoLocals.total_found <= geoLocals.total_parcels
    /\ geoPc = "done" =>
          /\ geoResult # None
          /\ Len(geoResult[1]) = Len(Matched)

\* a call that ends with two lookups attempted and none found, in a
\* resolution that goes on to return
C13_Witness ==
    /\ geoPc = "return"
    /\ geoLocals.total_parcels = 2
    /\ geoLocals.total_found = 0
    /\ \E k \in 1..Len(geoTrace) : geoTrace[k].response.kind = "no_match"

\* C14: the properties of a feature collected on a match hold every
\* attribute the GIS source returned, with the value it returned, and the
\* nine fields of the owning petition and its meeting.
C14_MergeKeepsGisAttributes ==
    /\ Len(Collected) = Len(Matched)
    /\ \A i \in 1..Len(Matched) :
          LET gis  == Matched[i].response.properties[1]
              got  == Collected[i].properties
              mtg  == geoMeetings[Matched[i].meeting]
              with == petitions_with_pins(mtg.petitions)
              pet  == CHOOSE p \in SeqToSet(with) : p.file_number = Matched[i].petition
          IN  /\ \A k \in DOMAIN gis : k \in DOMAIN got /\ got[k] = gis[k]
              /\ got.petition_number = pet.petition_number[1]
              /\ got.file_number = pet.file_number
              /\ got.location = pet.location
              /\ got.current_zoning = pet.current_zoning
              /\ got.proposed_zoning = pet.proposed_zoning
              /\ got.petitioner = pet.petitioner
              /\ got.status = pet.status
              /\ got.meeting_date = mtg.meeting_date
              /\ got.meeting_type = mtg.meeting_type

\* C15: the features collected are one per matched lookup, in the order of
\* the lookups, each with the parcel looked up and the fields of the petition
\* and meeting it was looked up for; a parcel matched for two petitions is
\* collected twice.
C15_OneFeaturePerMatchedLookup ==
    /\ Len(Collected) = Len(Matched)
    /\ \A i \in 1..Len(Matched) :
          LET got == Collected[i].properties
              mtg == geoMeetings[Matched[i].meeting]
          IN  /\ got.PID = Matched[i].pin
              /\ got.file_number = Matched[i].petition
              /\ got.meeting_date = mtg.meeting_date
              /\ got.meeting_type = mtg.meeting_type
    /\ \A i, j \in 1..Len(geoTrace) :
          i < j => LookupKey(geoTrace[i]) # LookupKey(geoTrace[j]) \/ geoTrace[i].meeting < geoTrace[j].meeting
    /\ geoPc = "done" => geoResult = Some(Collected)

\* one parcel matched for a petition of the first meeting and for two
\* petitions of the second: three features for it, each with its own petition
C15_Witness ==
    /\ geoPc = "done"
    /\ \E i, j, k \in 1..Len(geoResult[1]) :
          /\ i < j /\ j < k
          /\ geoResult[1][i].properties.PID = Pin12305310
          /\ geoResult[1][j].properties.PID = Pin12305310
          /\ geoResult[1][k].properties.PID = Pin12305310
          /\ geoResult[1][i].properties.petition_number = "2025-103"
          /\ geoResult[1][j].properties.petition_number = "2025-104"
          /\ geoResult[1][k].properties.petition_number = "2025-105"
          /\ geoResult[1][i].properties.meeting_date # geoResult[1][j].properties.meeting_date

(***************************************************************************)
(* Properties of the run: interruption and sessions (Spec)                 *)
(***************************************************************************)
\* C16: when the process is interrupted during a run, every artifact of the
\* data store is still the complete file of the last completed run: none is
\* partially written and none holds output of the interrupted run.
C16_InterruptedRunLeavesStoreIntact ==
    pc = "killed" => \A a \in SeqToSet(Artifacts) : store[a] = "old"

\* C17: when run has returned, on success or failure, every HTTP session
\* that was opened during the run is closed.
C17_SessionsClosedAtReturn ==
    pc = "done" => \A i \in 1..Len(sessions) : ~sessions[i].open

\* a run with three sessions whose geometry resolution was left by an
\* exception
C17_Witness ==
    /\ pc = "done"
    /\ Len(sessions) = 3
    /\ Happened("lookup", "null_properties")
    /\ \A i \in 1..Len(sessions) : ~sessions[i].open

\* C18: a run that makes requests creates exactly one HTTP client session.
C18_OneSessionPerRun ==
    (pc = "done" /\ Entries("calendar") # {}) => Len(sessions) = 1

(***************************************************************************)
(* Properties of the calendar parser (SpecCalendar)                        *)
(***************************************************************************)
\* the calendar day an ISO date string names, as a number yyyymmdd
DayNumber(d) ==
    Number(SubSeq(d, 1, 4)) * 10000 + Number(SubSeq(d, 6, 7)) * 100 + Number(SubSeq(d, 9, 10))

\* the date of the meeting lies within the bounds given, both inclusive
InRange(m, start_date, end_date) ==
    /\ start_date # None => DayNumber(start_date[1]) <= DayNumber(m.meeting_date)
    /\ end_date # None => DayNumber(m.meeting_date) <= DayNumber(end_date[1])

\* C19: the date filter returns the meetings of its input whose date is on or
\* after start_date, when given, and on or before end_date, when given, in
\* the order of the input; with no bound the input is returned as it is; the
\* input list is not modified.
C19_DateFilterInclusiveBounds ==
    /\ filter_by_date(calMeetings, calStart, calEnd)
          = SelectSeq(calMeetings, LAMBDA m : InRange(m, calStart, calEnd))
    /\ filter_by_date(calMeetings, None, None) = calMeetings
    /\ (calPc = "done" /\ ~calResult[1].raised) =>
          calResult[1].value = SelectSeq(calMeetings, LAMBDA m : InRange(m, calStart, calEnd))

\* both bounds given: a meeting on the day of end_date and one on the day of
\* start_date are returned, one before start_date and one after are not
C19_Witness ==
    /\ calPc = "done"
    /\ ~calResult[1].raised
    /\ calStart = Some(Date_2026_01_10)
    /\ calEnd = Some(Date_2026_01_20)
    /\ Len(calMeetings) = 3
    /\ calMeetings[1].meeting_date = Date_2026_01_20
    /\ calMeetings[2].meeting_date = strftime(<< "2", "0", "2", "5" >>, 12, 31)
    /\ calMeetings[3].meeting_date = Date_2026_01_10
    /\ Len(calResult[1].value) = 2

\* the strings that name a day of 2025 or 2026 in one of the three formats
\* of _parse_date
KnownDateStrings ==
    UNION { LET yyyy == TwoDigits(t[1] \div 100) \o TwoDigits(t[1] % 100)
                mm   == TwoDigits(t[2])
                dd   == TwoDigits(t[3])
            IN  { mm \o << "/" >> \o dd \o << "/" >> \o yyyy,
                  yyyy \o << "-" >> \o mm \o << "-" >> \o dd,
                  << MonthNames[t[2]], " " >> \o dd \o << ",", " " >> \o yyyy,
                  << MonthNames[t[2]], " " >>
                     \o (IF t[3] < 10 THEN << CharOrder[t[3] + 2] >> ELSE dd)
                     \o << ",", " " >> \o yyyy }
            : t \in { u \in (2025..2026) \X (1..12) \X (1..31) : ValidDate(u[1], u[2], u[3]) } }

\* the row has the cells and the date a Meeting needs
HasCellsAndDate(row) == row.cells >= 5 /\ row.date_str \in KnownDateStrings

\* C20: the parser of the calendar page takes the rows in page order and
\* never raises; it yields a meeting for a row only if the row has at least
\* five cells and a date in a known format; every other row is skipped, and
\* the meetings are those of the rows that yielded one, in page order.
C20_MalformedRowsAreSkipped ==
    /\ (calPc = "done" /\ calResult[1].raised) => calParsed = << >>
    /\ calPc \in {"rows", "done"} /\ (calPc = "done" => ~calResult[1].raised) =>
          /\ Len(calParsed) = calIdx - 1
          /\ calPc = "done" => Len(calParsed) = Len(calRows)
    /\ \A k \in 1..Len(calParsed) :
          /\ calParsed[k].row = k
          /\ calParsed[k].meeting # None => HasCellsAndDate(calRows[k])
          /\ ~HasCellsAndDate(calRows[k]) => calParsed[k].meeting = None
          /\ calRows[k].details = "no href" => calParsed[k].meeting = None
          /\ (HasCellsAndDate(calRows[k]) /\ calRows[k].details = "link") =>
                 /\ calParsed[k].meeting # None
                 /\ calParsed[k].meeting[1].meeting_type = calRows[k].meeting_type
    /\ calMeetings =
          LET kept == SelectSeq(calParsed, LAMBDA e : e.meeting # None)
          IN  [i \in 1..Len(kept) |-> kept[i].meeting[1]]

\* a page of three rows: a row of four cells, a row whose parsing raises,
\* and a complete row, which is the one meeting parsed
C20_Witness ==
    /\ calPc = "done"
    /\ ~calResult[1].raised
    /\ Len(calRows) = 3
    /\ calRows[1].cells = 4
    /\ calRows[2].details = "no href"
    /\ calRows[3].date_str = Str_January_5
    /\ Len(calMeetings) = 1
    /\ calMeetings[1].meeting_date = << "2", "0", "2", "6", "-", "0", "1", "-", "0", "5" >>

(***************************************************************************)
(* Properties of parse_pdf (SpecParse)                                     *)
(***************************************************************************)
\* the library of every backend invoked raised
EveryBackendRaised ==
    ppCalls # << >> /\ \A i \in 1..Len(ppCalls) : ppOutcome[ppCalls[i]].raises

\* C21: on an existing path parse_pdf raises, and returns nothing, exactly
\* when no backend is available or every backend it invoked raised; an empty
\* text alone is returned, not raised.
C21_RaisesWhenEveryBackendRaises ==
    (ppPc = "done" /\ ppExists) =>
        (ppResult[1].raised <=>
            \/ ~ppAvailable.pdfplumber /\ ~ppAvailable.pypdf2
            \/ EveryBackendRaised)

\* C25: with both backends available pdfplumber runs first; PyPDF2 runs
\* after it if and only if the text of pdfplumber has fewer than 100
\* characters; when PyPDF2 ran, the text and page count returned are those of
\* PyPDF2, also when it extracted less than pdfplumber or raised and gave the
\* empty text and zero pages.
C25_FallbackGateAndOverwrite ==
    (ppAvailable.pdfplumber /\ ppAvailable.pypdf2) =>
        /\ ppCalls \in { << >>, << "pdfplumber" >>, << "pdfplumber", "pypdf2" >> }
        /\ (ppPc = "done" /\ ppExists) =>
              LET first   == ppOutcome.pdfplumber
                  second  == ppOutcome.pypdf2
                  short   == first.raises \/ first.chars < 100
                  got     == ppResult[1].value
              IN  /\ ~ppResult[1].raised
                  /\ Len(ppCalls) = 2 <=> short
                  /\ short =>
                        /\ got.text.chars = IF second.raises THEN 0 ELSE second.chars
                        /\ got.page_count = IF second.raises THEN 0 ELSE second.pages
                        /\ got.text.by \in {"pypdf2", "none"}
                  /\ ~short =>
                        /\ got.text = [by |-> "pdfplumber", chars |-> first.chars]
                        /\ got.page_count = first.pages

\* pdfplumber extracted 99 characters, PyPDF2 raised: the empty text and
\* zero pages are returned
C25_Witness ==
    /\ ppPc = "done"
    /\ ppCalls = << "pdfplumber", "pypdf2" >>
    /\ ~ppOutcome.pdfplumber.raises /\ ppOutcome.pdfplumber.chars = 99
    /\ ppOutcome.pypdf2.raises
    /\ ppResult = Some(Return([text |-> EmptyText, page_count |-> 0]))

(***************************************************************************)
(* Properties of the storage and of main --stats (SpecStorage)             *)
(***************************************************************************)
\* the positions <<meeting, petition>> of a list of meetings
Slots(ms) == UNION { { << m, p >> : p \in 1..Len(ms[m].petitions) } : m \in 1..Len(ms) }

\* the number of petitions before position s in the flattened list
Before(ms, s) ==
    Cardinality({ t \in Slots(ms) : t[1] < s[1] \/ (t[1] = s[1] /\ t[2] < s[2]) })

\* C22: save_petitions followed by load_petitions returns the flattened
\* petition list that was saved, field for field and in the same order:
\* meetings in list order, the petitions of each in their order, each entry
\* the petition's fields plus the date and type of its meeting.
C22_PetitionsRoundTrip ==
    (stLoaded # None /\ stFiles.petitions # None) =>
        /\ Len(stLoaded[1]) = Cardinality(Slots(stMeetings))
        /\ \A s \in Slots(stMeetings) :
              stLoaded[1][Before(stMeetings, s) + 1]
                  = PetitionDict(stMeetings[s[1]].petitions[s[2]], stMeetings[s[1]])

\* two meetings were saved and loaded; among the entries are a petition
\* without pins, one with the empty list and one with two pins
C22_Witness ==
    /\ stLoaded # None
    /\ Len(stMeetings) = 2
    /\ Len(stLoaded[1]) = 4
    /\ \E i, j, k \in 1..Len(stLoaded[1]) :
          /\ stLoaded[1][i].pins = JNull
          /\ stLoaded[1][j].pins = JList(<< >>)
          /\ stLoaded[1][k].pins = JList(<< Pin02217101, Pin12305310 >>)
          /\ stLoaded[1][i].meeting_date # stLoaded[1][j].meeting_date

\* C23: once the statistics artifact is written it holds the counts of the
\* meetings the same _save_data saved: total_meetings, total_petitions (the
\* total_count of the petitions artifact), petitions_with_pins (petitions
\* with a non-empty pins list) and total_pins (the sum of the lengths of
\* those lists); so petitions_with_pins <= total_petitions and
\* petitions_with_pins <= total_pins.
C23_StatsMatchSavedMeetings ==
    stFiles.stats # None =>
        LET stats    == stFiles.stats[1]
            pinsAt(s) == stMeetings[s[1]].petitions[s[2]].pins
            withPins == { s \in Slots(stMeetings) : pinsAt(s) # None /\ pinsAt(s) # Some(<< >>) }
            pinSlots == UNION { { << s, i >> : i \in 1..Len(pinsAt(s)[1]) } : s \in withPins }
        IN  /\ stats.total_meetings = Len(stMeetings)
            /\ stats.total_petitions = Cardinality(Slots(stMeetings))
            /\ stats.total_petitions = stFiles.petitions[1].total_count
            /\ stats.petitions_with_pins = Cardinality(withPins)
            /\ stats.total_pins = Cardinality(pinSlots)
            /\ stats.petitions_with_pins <= stats.total_petitions
            /\ stats.petitions_with_pins <= stats.total_pins

\* statistics were saved for meetings that hold a petition with the empty
\* pins list, one without pins and one with two pins
C23_Witness ==
    /\ stPc = "saved"
    /\ stFiles.stats # None
    /\ stFiles.stats[1].total_petitions = 4
    /\ stFiles.stats[1].petitions_with_pins = 2
    /\ stFiles.stats[1].total_pins = 3
    /\ \E m \in 1..Len(stMeetings) : stMeetings[m].petitions[1] = PetEmptyPins

\* C24: main with a known county and --stats, over the artifacts of an
\* earlier run, prints the stored summary and exits with status 0, and
\* rewrites no artifact.
C24_StatsCommandPrintsStoredSummary ==
    (stPc = "exited" /\ stCounty \in COUNTIES /\ stFiles.stats # None) =>
        /\ stExit = Some(0)
        /\ stPrinted # None
        /\ stPrinted[1].total_meetings = stFiles.stats[1].total_meetings
        /\ stPrinted[1].total_petitions = stFiles.stats[1].total_petitions
        /\ \A i, j \in 1..Len(stTrace) :
              (stTrace[i] = "main --stats" /\ i < j) =>
                  stTrace[j] \in {"mkdir", "read stats.json", "read petitions.json"}

(***************************************************************************)
(* Properties of the alert cron job (SpecAgent, SpecNotify)                *)
(***************************************************************************)
Posts == SelectSeq(alTrace, LAMBDA e : e.op = "post")

\* C29: call_alert_checker_agent issues at most three requests; a request
\* after the first is issued only when the one before it timed out; the
\* first successful response is returned at once; a request error that is
\* no timeout is raised at once; the third timeout in a row is raised.
C29_AtMostThreeRequestsRetryOnTimeoutOnly ==
    /\ Len(Posts) <= 3
    /\ \A i \in 1..Len(Posts) : Posts[i].attempt = i - 1
    /\ \A i \in 2..Len(Posts) : alOutcomes[i - 1] = "timeout"
    /\ alPc = "loop" => \A i \in 1..Len(Posts) : alOutcomes[i] = "timeout"
    /\ alPc = "done" =>
          LET last == alOutcomes[Len(Posts)]
          IN  /\ Len(Posts) >= 1
              /\ last = "ok" => alResult = Some(Return("data"))
              /\ last = "timeout" =>
                    Len(Posts) = 3 /\ alResult = Some(RaiseError("Timeout"))
              /\ last \notin {"ok", "timeout"} =>
                    alResult = Some(RaiseError(ErrorOf(last)))

\* two timeouts, then a request that met an HTTP error status: three
\* requests, the HTTP error raised
C29_Witness ==
    /\ alPc = "done"
    /\ alOutcomes = << "timeout", "timeout", "http_error" >>
    /\ Len(Posts) = 3
    /\ alResult = Some(RaiseError("HTTPError"))

SendAttempted(n) == n.is_dict /\ n.email # None /\ n.petitions \notin {"missing", "empty"}

Sent(n) == SendAttempted(n) /\ n.petitions = "list" /\ n.smtp = "ok"

\* C30: send_notifications processes every notification, in list order,
\* whatever happened to the earlier ones, and counts each once: a success
\* when the send returned true, a failure when it returned false or raised,
\* neither when the email or the petition list is missing; success + failure
\* <= number of notifications; the cron job exits with a failure status when
\* the failure count is positive.
C30_EveryNotificationCountedOnce ==
    LET all == 1..Len(notifications)
    IN  /\ ntPc \in {"returned", "raised", "exited"} =>
              /\ ntIdx = Len(notifications) + 1
              /\ success_count = Cardinality({ i \in all : Sent(notifications[i]) })
              /\ failure_count =
                     Cardinality({ i \in all : SendAttempted(notifications[i])
                                               /\ ~Sent(notifications[i]) })
        /\ success_count + failure_count <= Len(notifications)
        /\ (ntPc = "exited" /\ failure_count > 0) => ntExit = Some(1)

(***************************************************************************)
(* Properties of the petitions and meetings of a run (Spec)                *)
(***************************************************************************)
\* the identifiers of the PDFs a directory holds
PinsOfDirectory(fs, dir) ==
    UNION { ParsedPins(f.doc) : f \in { g \in fs : g.dir = dir /\ EndsWith(g.name, DotPdf) } }

\* C26: a step of _process_petitions assigns identifiers to a petition only
\* if at least one attachment was downloaded in that step, and the list
\* assigned is the extraction result over every PDF then in the directory
\* named by the petition number, files of earlier runs or of another
\* petition with the same number included.
C26_PinsOnlyAfterDownloadOverWholeDirectory ==
    [][(pc = "process" /\ procIdx' = procIdx + 1) =>
          LET pos    == PetitionPositions(meetings, 1)[procIdx]
              before == meetings[pos[1]].petitions[pos[2]]
              after  == meetings'[pos[1]].petitions[pos[2]]
          IN  /\ \A m \in 1..Len(meetings) : \A p \in 1..Len(meetings[m].petitions) :
                    << m, p >> # pos => meetings'[m].petitions[p] = meetings[m].petitions[p]
              /\ after.pins # before.pins =>
                    /\ log'[Len(log')] = [step |-> "process", item |-> procIdx,
                                          what |-> "downloaded"]
                    /\ after.pins = Some(SortedList(
                           PinsOfDirectory(attachFs', before.petition_number[1])))
              /\ (log'[Len(log')].what = "downloaded"
                  /\ PinsOfDirectory(attachFs', before.petition_number[1]) # {}) =>
                    after.pins # None]_vars

\* petition 2025-103 downloaded its staff report, which names one parcel;
\* its pins also hold the parcel named only by the map an earlier run left
\* in the directory
C26_Witness ==
    /\ StaleFile("2025-103") \in attachFs
    /\ \E k \in 1..Len(log) : log[k].step = "process" /\ log[k].what = "downloaded"
    /\ \E m \in 1..Len(meetings) : \E p \in 1..Len(meetings[m].petitions) :
          /\ meetings[m].petitions[p].petition_number = Some("2025-103")
          /\ meetings[m].petitions[p].pins = Some(<< Pin02217101, Pin12305310 >>)
    /\ PinsOfText(DEFAULT_PATTERNS, AttStaff.doc.text) = { Pin12305310 }

\* the positions of the petitions without a petition number or a URL
SkippedPositions ==
    { s \in SeqToSet(PetitionPositions(meetings, 1)) :
          LET petition == meetings[s[1]].petitions[s[2]]
          IN  petition.petition_number = None \/ petition.legislation_url = None }

\* C27: a petition without a petition number or a legislation URL is
\* skipped: no attachment request is made for it, its identifier list stays
\* absent and no geometry lookup is made for it; it stays in its meeting,
\* which is what the run saves, and total_petitions counts it.
C27_PetitionWithoutNumberSkippedButSaved ==
    LET positions == PetitionPositions(meetings, 1)
        skipped   == SkippedPositions
        lookups   == Lookups(meetings, 1)
        looked    == { << lookups[i].meeting, lookups[i].petition >> : i \in 1..Len(lookups) }
        processed == { k \in 1..Len(log) : log[k].step = "process" /\ log[k].item # 0 }
    IN  /\ \A s \in skipped :
              /\ meetings[s[1]].petitions[s[2]].pins = None
              /\ << meetings[s[1]].id, s[2] >> \notin looked
        /\ \A k \in processed :
              positions[log[k].item] \in skipped => log[k].what = "skipped"
        /\ (pc = "done" /\ result = Some(TRUE)) =>
              /\ \A a \in SeqToSet(Artifacts) : store[a] = "new"
              /\ stats_file(meetings).total_petitions = Len(positions)
              /\ stats_file(meetings).total_petitions
                     >= Cardinality(skipped) + stats_file(meetings).petitions_with_pins

\* a run that saved a meeting with a petition without a number and a
\* petition that got pins
C27_Witness ==
    /\ pc = "done" /\ result = Some(TRUE)
    /\ SkippedPositions # {}
    /\ stats_file(meetings).petitions_with_pins >= 1
    /\ \E k \in 1..Len(log) : log[k].step = "process" /\ log[k].what = "skipped"

\* C28: the detail page of a meeting is fetched only if its type contains
\* 'zoning', 'rezoning' or 'planning' in any case; the meetings the run holds
\* and saves are those whose detail fetch succeeded, in order; a meeting
\* whose detail fetch raised is in neither the saved meetings nor the
\* statistics.
C28_OnlyZoningMeetingsWithDetailsAreSaved ==
    LET details == { k \in 1..Len(log) : log[k].step = "details" /\ log[k].item # 0 }
        ok      == { log[k].item : k \in { j \in details : log[j].what = "ok" } }
        raised  == { log[k].item : k \in { j \in details : log[j].what = "raised" } }
    IN  /\ \A i \in 1..Len(selected) : (i < detailIdx) <=> selected[i].id \in ok \cup raised
        /\ \A id \in ok \cup raised :
              \E i \in 1..Len(selected) :
                  /\ selected[i].id = id
                  /\ selected[i].meeting_type \in
                         {"Zoning Committee", "City Council Zoning Meeting", "Planning Committee"}
        /\ { meetings[m].id : m \in 1..Len(meetings) } = ok
        /\ \A m \in 1..Len(meetings) : meetings[m].id \notin raised
        /\ \A m, n \in 1..Len(meetings) : m < n => meetings[m].id < meetings[n].id
        /\ (pc = "done" /\ result = Some(TRUE)) =>
              stats_file(meetings).total_meetings = Cardinality(ok)

\* a calendar of a business meeting and a zoning meeting: the business
\* meeting was not fetched, the zoning meeting was fetched and
\* saved
C28_Witness ==
    /\ pc = "done" /\ result = Some(TRUE)
    /\ Len(meetings) = 1
    /\ \E k \in 1..Len(log) : log[k].step = "calendar" /\ log[k].item = 2
    /\ Len(selected) = 1
    /\ \E k \in 1..Len(log) : log[k].step = "details" /\ log[k].what = "ok"

=============================================================================
